---- MODULE Spec2Model ----
(***************************************************************************)
(* Real-time subscription and update-broadcast engine of the finance       *)
(* dashboard (src/utils/websocket.js and the quote adapter it calls,       *)
(* src/unnamed/part_002).  Node runs every handler to its next await       *)
(* without interleaving, so each action below is one such run: a socket    *)
(* event handler, a timer callback up to its first await, or the           *)
(* continuation of an async function after an await resolves.              *)
(***************************************************************************)
EXTENDS Integers, Sequences, FiniteSets, TLC

(***************************************************************************)
(* Bounds of the model.                                                    *)
(***************************************************************************)
\* Number of broadcast cycles in flight at once where cycles overlap
\* (SpecOrder): the timer callback is not followed when that many invocations
\* of broadcastStockUpdates are suspended.
MaxCyclesInFlight == 2
\* Number of broadcast cycles in flight at once in every other specification.
MaxLiveCycles == 1
\* Number of snapshot fetches (sendInitialStockData) in flight at once.
MaxInitialFetches == 1

\* socket.id values; an id is never reused after its socket closed.
Conns == {"c1", "c2", "c3"}

(***************************************************************************)
(* Program constants.                                                      *)
(***************************************************************************)
MAX_SUBSCRIPTIONS_PER_CLIENT == 50
batchSize == 10

(***************************************************************************)
(* Strings are sequences of one-character strings, so that toUpperCase     *)
(* and trim are computed and not assumed.                                  *)
(***************************************************************************)
UpperChar(ch) ==
    CASE ch = "a" -> "A"
      [] ch = "p" -> "P"
      [] ch = "l" -> "L"
      [] ch = "m" -> "M"
      [] ch = "s" -> "S"
      [] ch = "f" -> "F"
      [] ch = "t" -> "T"
      [] OTHER -> ch

toUpperCase(str) == [i \in 1..Len(str) |-> UpperChar(str[i])]

IsWhiteSpace(ch) == ch = " "

RECURSIVE trimStart(_)
trimStart(str) ==
    IF str # <<>> /\ IsWhiteSpace(Head(str)) THEN trimStart(Tail(str)) ELSE str

RECURSIVE trimEnd(_)
trimEnd(str) ==
    IF str # <<>> /\ IsWhiteSpace(str[Len(str)])
    THEN trimEnd(SubSeq(str, 1, Len(str) - 1))
    ELSE str

trim(str) == trimEnd(trimStart(str))

\* A clean form that trims and keeps the case of the letters.
CleanSymbolTrimOnly(str) == trim(str)

\* symbol.toUpperCase().trim() of the subscribe and unsubscribe handlers.
CleanSymbol(str) == trim(toUpperCase(str))

(***************************************************************************)
(* Payload values.  An element of data.symbols is a JSON value: a string   *)
(* (isString, with its characters) or anything else (a number here), on    *)
(* which symbol.toUpperCase is not a function.                             *)
(***************************************************************************)
Str(chars) == [isString |-> TRUE, chars |-> chars]
NotAString == [isString |-> FALSE, chars |-> <<>>]

AAPL == <<"A", "A", "P", "L">>
MSFT == <<"M", "S", "F", "T">>

\* data.symbols: an array of JSON values, or missing / not an array.
ArrayOf(items) == [isArray |-> TRUE, items |-> items]
NotAnArray == [isArray |-> FALSE, items |-> <<>>]

\* The payloads clients send in Spec.
Payloads ==
    { NotAnArray,
      ArrayOf(<<Str(AAPL)>>),
      ArrayOf(<<Str(<<" ", "a", "a", "p", "l">>), Str(MSFT)>>),
      ArrayOf(<<Str(<<" ">>), Str(MSFT)>>),
      ArrayOf(<<Str(AAPL), NotAString>>) }

\* Symbols "S01", "S02", ... and the payloads of SpecCap, which fill a
\* connection to the limit: ["S01".."S48"], ["S49","S50"], ["S49".."S53"],
\* ["S01"], ["S49","S50","S49"].
Digits == <<"0", "1", "2", "3", "4", "5", "6", "7", "8", "9">>
CapSym(n) == <<"S", Digits[(n \div 10) + 1], Digits[(n % 10) + 1]>>
SymRange(a, b) == [k \in 1..(b - a + 1) |-> Str(CapSym(a + k - 1))]

BulkPayloads ==
    { ArrayOf(SymRange(1, 48)), ArrayOf(SymRange(49, 50)),
      ArrayOf(SymRange(49, 53)), ArrayOf(SymRange(1, 1)),
      ArrayOf(SymRange(49, 50) \o SymRange(49, 49)) }

\* The sockets that connect in SpecCap and in SpecOrder.
TwoConns == {"c1", "c2"}

(***************************************************************************)
(* JavaScript Map and Set keep insertion order: the index `subscriptions`  *)
(* is a sequence of entries [symbol, clients], clients a sequence of       *)
(* socket ids without repetition.                                          *)
(***************************************************************************)
Range(seq) == {seq[i] : i \in 1..Len(seq)}

\* Set.prototype.delete
SeqWithout(seq, x) == SelectSeq(seq, LAMBDA y : y # x)

\* Set.prototype.add
SetAdd(seq, x) == IF x \in Range(seq) THEN seq ELSE Append(seq, x)

\* Map.prototype.has / keys / get
MapHas(map, key) == \E i \in 1..Len(map) : map[i].symbol = key
MapKeys(map) == [i \in 1..Len(map) |-> map[i].symbol]
MapGet(map, key) ==
    IF MapHas(map, key)
    THEN (CHOOSE e \in Range(map) : e.symbol = key).clients
    ELSE <<>>


\* The set of socket ids the index holds for a symbol (empty without a key).
ClientsOf(map, key) == Range(MapGet(map, key))

(***************************************************************************)
(* Messages emitted on a socket.                                           *)
(***************************************************************************)
Msg(to, ev, symbols, errors, error) ==
    [to |-> to, ev |-> ev, symbols |-> symbols, errors |-> errors, error |-> error]

VARIABLES
    sockets,          \* socket id -> "fresh" | "open" | "closed"
    connections,      \* Map clientId -> connection record
    subscriptions,    \* Map symbol -> Set of socket ids (the index)
    updateInterval,   \* TRUE when the timer handle is not null
    activeTimers,     \* number of interval timers created and not cleared
    cycles,           \* broadcastStockUpdates invocations awaiting a batch,
                      \* in the order of the ticks that started them
    initialFetches,   \* sendInitialStockData invocations that are followed
    watchlists,       \* subscribe_watchlist invocations awaiting the lookup
    forces,           \* forceStockUpdate invocations awaiting a fetch or an upsert
    delivered         \* <<socket, symbol>> pairs that have got a broadcast
                      \* message an odd number of times (kept in SpecLive)

vars == <<sockets, connections, subscriptions, updateInterval, activeTimers,
          cycles, initialFetches, watchlists, forces, delivered>>

\* The invocations and the record that the registry's handlers and the
\* scheduler neither read nor write.
others == <<watchlists, forces, delivered>>

(***************************************************************************)
(* io.on('connection'): a fresh record with no subscriptions and no user.  *)
(***************************************************************************)
NewConnection == [subscriptions |-> {}, userId |-> "null"]

MapWith(map, id, rec) ==
    [k \in DOMAIN map \cup {id} |-> IF k = id THEN rec ELSE map[k]]

MapWithout(map, id) == [k \in DOMAIN map \ {id} |-> map[k]]

(***************************************************************************)
(* socket.on('subscribe')                                                  *)
(***************************************************************************)
\* A loop that accepts every string, the empty one included.
IsValidAnyString(symbol) == symbol.isString

\* An element the loop accepts: a string whose clean form is not empty.  On
\* any other element symbol.toUpperCase throws inside the loop's own try.
IsValid(symbol) == symbol.isString /\ CleanSymbol(symbol.chars) # <<>>

\* errors.push for an element that is not accepted.
SubscribeError(symbol) ==
    [symbol |-> symbol,
     error |-> IF symbol.isString THEN "Invalid symbol"
               ELSE "symbol.toUpperCase is not a function"]

\* subscribedSymbols after the loop: the clean form of every accepted element,
\* in the order of the payload, repetitions kept.
Accepted(symbols) ==
    LET ok == SelectSeq(symbols, IsValid)
    IN  [k \in 1..Len(ok) |-> CleanSymbol(ok[k].chars)]

\* errors after the loop.
Rejected(symbols) ==
    LET bad == SelectSeq(symbols, LAMBDA s : ~IsValid(s))
    IN  [k \in 1..Len(bad) |-> SubscribeError(bad[k])]

\* connection.subscriptions after the loop (Set.prototype.add).
OwnAfterSubscribe(own, subscribedSymbols) == own \cup Range(subscribedSymbols)

\* The elements of seq in the order of their first occurrence.
FirstOccurrences(seq) ==
    LET first == {k \in 1..Len(seq) : \A j \in 1..(k - 1) : seq[j] # seq[k]}
    IN  [n \in 1..Cardinality(first) |->
            seq[CHOOSE k \in first : Cardinality({j \in first : j <= k}) = n]]

\* The index after the loop: clientId is added to the set of every accepted
\* symbol that has a key, and a key with the set {clientId} is appended for
\* every other one, in the order the loop meets them.
IndexAfterSubscribe(map, subscribedSymbols, clientId) ==
    LET added == FirstOccurrences(SelectSeq(subscribedSymbols,
                                            LAMBDA s : ~MapHas(map, s)))
    IN  [k \in 1..Len(map) |->
            IF map[k].symbol \in Range(subscribedSymbols)
            THEN [map[k] EXCEPT !.clients = SetAdd(@, clientId)]
            ELSE map[k]]
        \o [n \in 1..Len(added) |-> [symbol |-> added[n], clients |-> <<clientId>>]]

\* A handler without the check of the limit.
OverLimitNever(size, requested) == FALSE

\* The limit check of the handler.
OverLimit(size, requested) == size + requested > MAX_SUBSCRIPTIONS_PER_CLIENT

\* A handler that starts a timer whenever the index is not empty, whether or
\* not one is active.
ShouldStartAlways(index, timer) == Len(index) > 0

\* if (subscriptions.size > 0 && !updateInterval) startUpdateInterval(io)
ShouldStart(index, timer) == Len(index) > 0 /\ ~timer

\* if (subscriptions.size === 0 && updateInterval) stopUpdateInterval()
ShouldStop(index, timer) == Len(index) = 0 /\ timer

\* A handler that accepts, of a request over the limit, the entries that fit
\* and acknowledges them.
SubscribeHandlerPartial(conns, index, timer, clientId, data) ==
    LET unchanged(error) ==
            [connections |-> conns, subscriptions |-> index,
             emits |-> <<Msg(clientId, "subscription_error", <<>>, <<>>, error)>>,
             initial |-> <<>>, start |-> FALSE]
    IN  IF ~data.isArray THEN unchanged("Invalid symbols array")
        ELSE IF clientId \notin DOMAIN conns THEN unchanged("Connection not found")
        ELSE LET room == MAX_SUBSCRIPTIONS_PER_CLIENT
                            - Cardinality(conns[clientId].subscriptions)
                 items == SubSeq(data.items, 1,
                                 IF room < Len(data.items) THEN room
                                 ELSE Len(data.items))
                 subscribedSymbols == Accepted(items)
                 index2 == IndexAfterSubscribe(index, subscribedSymbols, clientId)
             IN  [connections |->
                    [conns EXCEPT ![clientId].subscriptions =
                        OwnAfterSubscribe(@, subscribedSymbols)],
                  subscriptions |-> index2,
                  emits |-> <<Msg(clientId, "subscribed", subscribedSymbols,
                                  Rejected(items), "")>>,
                  initial |-> subscribedSymbols,
                  start |-> ShouldStart(index2, timer)]

\* What the handler does for socket clientId and payload data, given the
\* connection table, the index and the timer handle: the new table and index,
\* the messages emitted, the symbols handed to sendInitialStockData and
\* whether startUpdateInterval is called.
SubscribeHandler(conns, index, timer, clientId, data) ==
    LET unchanged(error) ==
            [connections |-> conns, subscriptions |-> index,
             emits |-> <<Msg(clientId, "subscription_error", <<>>, <<>>, error)>>,
             initial |-> <<>>, start |-> FALSE]
    IN  IF ~data.isArray THEN unchanged("Invalid symbols array")
        ELSE IF clientId \notin DOMAIN conns THEN unchanged("Connection not found")
        ELSE IF OverLimit(Cardinality(conns[clientId].subscriptions), Len(data.items))
        THEN unchanged("Maximum 50 subscriptions allowed per client")
        ELSE LET subscribedSymbols == Accepted(data.items)
                 index2 == IndexAfterSubscribe(index, subscribedSymbols, clientId)
             IN  [connections |->
                    [conns EXCEPT ![clientId].subscriptions =
                        OwnAfterSubscribe(@, subscribedSymbols)],
                  subscriptions |-> index2,
                  emits |-> <<Msg(clientId, "subscribed", subscribedSymbols,
                                  Rejected(data.items), "")>>,
                  initial |-> subscribedSymbols,
                  start |-> ShouldStart(index2, timer)]

(***************************************************************************)
(* socket.on('unsubscribe')                                                *)
(***************************************************************************)
\* The elements the loop processes: there is no try inside it, so the first
\* element that is not a string throws out of the loop.
Processed(symbols) ==
    LET bad == {k \in 1..Len(symbols) : ~symbols[k].isString}
    IN  IF bad = {} THEN symbols
        ELSE SubSeq(symbols, 1, (CHOOSE k \in bad : \A j \in bad : k <= j) - 1)

\* unsubscribedSymbols after the loop.
Cleaned(symbols) == [k \in 1..Len(symbols) |-> CleanSymbol(symbols[k].chars)]

\* A loop that deletes from the index only and keeps the connection's own set.
OwnAfterUnsubscribeKept(own, unsubscribedSymbols) == own

\* connection.subscriptions after the loop (Set.prototype.delete).
OwnAfterUnsubscribe(own, unsubscribedSymbols) == own \ Range(unsubscribedSymbols)

\* A loop that empties the set of every symbol it meets, whoever is in it.
UnsubscribeEntryClears(entry, unsubscribedSymbols, clientId) ==
    IF entry.symbol \in Range(unsubscribedSymbols)
    THEN [entry EXCEPT !.clients = <<>>]
    ELSE entry

\* One entry of the index after the loop: clientId is deleted from the set of
\* every symbol the loop met.
UnsubscribeEntry(entry, unsubscribedSymbols, clientId) ==
    IF entry.symbol \in Range(unsubscribedSymbols)
    THEN [entry EXCEPT !.clients = SeqWithout(@, clientId)]
    ELSE entry

\* A loop that leaves the key of an emptied set in the index.
PrunedNever(entry) == FALSE

\* Whether the loop deletes the key of an entry: its set is left empty.
Pruned(entry) == entry.clients = <<>>

\* The index after the loop.
IndexAfterUnsubscribe(map, unsubscribedSymbols, clientId) ==
    SelectSeq([k \in 1..Len(map) |->
                  UnsubscribeEntry(map[k], unsubscribedSymbols, clientId)],
              LAMBDA e : ~Pruned(e))

UnsubscribeHandler(conns, index, timer, clientId, data) ==
    IF ~data.isArray
    THEN [connections |-> conns, subscriptions |-> index,
          emits |-> <<Msg(clientId, "unsubscription_error", <<>>, <<>>,
                          "Invalid symbols array")>>,
          stop |-> FALSE]
    ELSE IF clientId \notin DOMAIN conns
    THEN [connections |-> conns, subscriptions |-> index, emits |-> <<>>,
          stop |-> FALSE]
    ELSE LET done == Processed(data.items)
             threw == Len(done) < Len(data.items)
             unsubscribedSymbols == Cleaned(done)
             index2 == IndexAfterUnsubscribe(index, unsubscribedSymbols, clientId)
         IN  [connections |->
                [conns EXCEPT ![clientId].subscriptions =
                    OwnAfterUnsubscribe(@, unsubscribedSymbols)],
              subscriptions |-> index2,
              emits |-> IF threw
                        THEN <<Msg(clientId, "unsubscription_error", <<>>, <<>>,
                                   "Unsubscription failed")>>
                        ELSE <<Msg(clientId, "unsubscribed", unsubscribedSymbols,
                                   <<>>, "")>>,
              stop |-> ~threw /\ ShouldStop(index2, timer)]

\* A cleanup that leaves the index sets as they are.
DisconnectEntryKept(entry, own, clientId) == entry

(***************************************************************************)
(* socket.on('disconnect')                                                 *)
(***************************************************************************)
\* One entry of the index after connection.subscriptions.forEach: touched
\* only when its symbol is in the connection's own set.
DisconnectEntry(entry, own, clientId) ==
    IF entry.symbol \in own
    THEN [entry EXCEPT !.clients = SeqWithout(@, clientId)]
    ELSE entry

\* The index after the loop: the entries left empty are deleted.
IndexRemoveAll(map, own, clientId) ==
    SelectSeq([k \in 1..Len(map) |-> DisconnectEntry(map[k], own, clientId)],
              LAMBDA e : ~Pruned(e))

\* A cleanup that deletes the record of the connection and leaves the index
\* as it is.
DisconnectHandlerRecordOnly(conns, index, timer, clientId) ==
    [connections |-> MapWithout(conns, clientId),
     subscriptions |-> index,
     stop |-> ShouldStop(index, timer)]

DisconnectHandler(conns, index, timer, clientId) ==
    LET idx == IF clientId \in DOMAIN conns
               THEN IndexRemoveAll(index, conns[clientId].subscriptions, clientId)
               ELSE index
    IN  [connections |-> MapWithout(conns, clientId),
         subscriptions |-> idx,
         stop |-> ShouldStop(idx, timer)]


(***************************************************************************)
(* getMultipleStockPrices (src/unnamed/part_002).  The upstream answer is  *)
(* an input: the request fails (ok = FALSE: network error, timeout, no     *)
(* data, missing API key) or it returns a quote for the symbols in found.  *)
(* A returned quote carries the symbol it was asked for.                   *)
(***************************************************************************)
Upstream(ok, found) == [ok |-> ok, found |-> found]

\* An adapter that throws for the whole batch when one symbol has no quote.
getMultipleStockPricesAllOrNothing(symbols, upstream) ==
    IF Len(symbols) = 0 \/ Len(symbols) > 100 \/ ~upstream.ok
       \/ \E k \in 1..Len(symbols) : symbols[k] \notin upstream.found
    THEN [threw |-> TRUE, stocks |-> <<>>, errors |-> <<>>]
    ELSE [threw |-> FALSE, stocks |-> symbols, errors |-> <<>>]

getMultipleStockPrices(symbols, upstream) ==
    IF Len(symbols) = 0 \/ Len(symbols) > 100 \/ ~upstream.ok
    THEN [threw |-> TRUE, stocks |-> <<>>, errors |-> <<>>]
    ELSE [threw |-> FALSE,
          stocks |-> SelectSeq(symbols, LAMBDA s : s \in upstream.found),
          errors |-> [i \in 1..Len(SelectSeq(symbols, LAMBDA s : s \notin upstream.found)) |->
                        [symbol |-> SelectSeq(symbols, LAMBDA s : s \notin upstream.found)[i],
                         error |-> "Stock not found"]]]

(***************************************************************************)
(* broadcastStockUpdates                                                   *)
(***************************************************************************)
Min(a, b) == IF a < b THEN a ELSE b

\* symbols.slice(i, i + batchSize)
Batch(symbols, i) == SubSeq(symbols, i + 1, Min(i + batchSize, Len(symbols)))

\* A cycle that records one error for a batch whose call threw, whatever the
\* number of symbols of the batch.
AfterBatchOneError(cycle, upstream) ==
    LET batch == Batch(cycle.symbols, cycle.i)
        res == getMultipleStockPrices(batch, upstream)
    IN  IF res.threw
        THEN [cycle EXCEPT !.allErrors = @ \o
                <<[symbol |-> batch[1],
                   error |-> "Failed to fetch multiple stock prices"]>>]
        ELSE [cycle EXCEPT !.allUpdates = @ \o res.stocks,
                           !.allErrors = @ \o res.errors]

\* One batch's result added to allUpdates and allErrors: the stocks and errors
\* returned, or one error for every symbol of the batch when the call threw.
AfterBatch(cycle, upstream) ==
    LET batch == Batch(cycle.symbols, cycle.i)
        res == getMultipleStockPrices(batch, upstream)
    IN  IF res.threw
        THEN [cycle EXCEPT !.allErrors = @ \o
                [k \in 1..Len(batch) |->
                    [symbol |-> batch[k],
                     error |-> "Failed to fetch multiple stock prices"]]]
        ELSE [cycle EXCEPT !.allUpdates = @ \o res.stocks,
                           !.allErrors = @ \o res.errors]

\* connection && connection.socket.connected
CanEmit(conns, socks, clientId) ==
    clientId \in DOMAIN conns /\ socks[clientId] = "open"

\* A delivery that reaches only the first subscriber of the symbol.
RecipientsFirstOnly(index, conns, socks, symbol) ==
    LET all == SelectSeq(MapGet(index, symbol), LAMBDA id : CanEmit(conns, socks, id))
    IN  IF all = <<>> THEN <<>> ELSE <<all[1]>>

\* The sockets a message for symbol is emitted to, in the order of
\* subscriptions.get(symbol).forEach.
Recipients(index, conns, socks, symbol) ==
    SelectSeq(MapGet(index, symbol), LAMBDA id : CanEmit(conns, socks, id))

RECURSIVE UpdateEmits(_, _, _, _)
UpdateEmits(allUpdates, index, conns, socks) ==
    IF allUpdates = <<>> THEN <<>>
    ELSE LET symbol == Head(allUpdates)
             to == Recipients(index, conns, socks, symbol)
         IN  [k \in 1..Len(to) |-> Msg(to[k], "stock_update", <<symbol>>, <<>>, "")]
             \o UpdateEmits(Tail(allUpdates), index, conns, socks)

RECURSIVE ErrorEmits(_, _, _, _)
ErrorEmits(allErrors, index, conns, socks) ==
    IF allErrors = <<>> THEN <<>>
    ELSE LET symbol == Head(allErrors).symbol
             to == Recipients(index, conns, socks, symbol)
         IN  [k \in 1..Len(to) |->
                 Msg(to[k], "stock_error", <<symbol>>, <<>>, Head(allErrors).error)]
             \o ErrorEmits(Tail(allErrors), index, conns, socks)

\* The emits in program order, all updates and then all errors.
BroadcastEmits(cycle, index, conns, socks) ==
    UpdateEmits(cycle.allUpdates, index, conns, socks)
    \o ErrorEmits(cycle.allErrors, index, conns, socks)

\* No emit of the broadcast is inside a try of its own: the first one that
\* throws leaves the two forEach loops for the catch at the end of the
\* function, and the emits after it are not made.
EmitsMade(plan, failing) ==
    LET thrown == {k \in 1..Len(plan) : plan[k].to \in failing}
    IN  IF thrown = {} THEN plan
        ELSE SubSeq(plan, 1, (CHOOSE k \in thrown : \A j \in thrown : k <= j) - 1)

\* A snapshot that takes the first key of the index only.
NewCycleFirstKey(index) ==
    [symbols |-> SubSeq(MapKeys(index), 1, 1), i |-> 0, allUpdates |-> <<>>,
     allErrors |-> <<>>, overtaken |-> {}, stage |-> "fetch", left |-> <<>>]

\* The locals of an invocation at its first await.  stage is the await the
\* invocation is suspended at: "fetch" (getMultipleStockPrices of the batch
\* at i), "upsert" (Stock.findOneAndUpdate of the first stock of left, the
\* stocks of the batch not yet written) or "delay" (the 100 ms before the
\* next batch).  overtaken is not a local: it records, while the invocation
\* is in flight, the <<socket, symbol>> pairs a cycle started by a later tick
\* has sent a stock_update for.
NewCycle(index) ==
    [symbols |-> MapKeys(index), i |-> 0, allUpdates |-> <<>>, allErrors |-> <<>>,
     overtaken |-> {}, stage |-> "fetch", left |-> <<>>]

(***************************************************************************)
(* Initial state: the module has just been loaded.                         *)
(***************************************************************************)
Init ==
    /\ sockets = [c \in Conns |-> "fresh"]
    /\ connections = [c \in {} |-> NewConnection]
    /\ subscriptions = <<>>
    /\ updateInterval = FALSE
    /\ activeTimers = 0
    /\ cycles = <<>>
    /\ initialFetches = <<>>
    /\ watchlists = <<>>
    /\ forces = <<>>
    /\ delivered = {}

\* io.on('connection')
Connect(c) ==
    /\ sockets[c] = "fresh"
    /\ sockets' = [sockets EXCEPT ![c] = "open"]
    /\ connections' = MapWith(connections, c, NewConnection)
    /\ UNCHANGED <<subscriptions, updateInterval, activeTimers, cycles, initialFetches,
                   others>>

\* socket.on('subscribe') with the call of startUpdateInterval.  The handler
\* also starts sendInitialStockData, which reads and writes nothing of the
\* registry or the scheduler: its snapshot fetch is followed to its
\* initial_data message when follow is TRUE.
SubscribeWith(c, data, follow) ==
    /\ sockets[c] = "open"
    /\ LET r == SubscribeHandler(connections, subscriptions, updateInterval, c, data) IN
       /\ (follow /\ r.initial # <<>>) => Len(initialFetches) < MaxInitialFetches
       /\ connections' = r.connections
       /\ subscriptions' = r.subscriptions
       /\ initialFetches' = IF follow /\ r.initial # <<>>
                            THEN Append(initialFetches, [to |-> c, symbols |-> r.initial])
                            ELSE initialFetches
       /\ updateInterval' = (updateInterval \/ r.start)
       /\ activeTimers' = IF r.start THEN activeTimers + 1 ELSE activeTimers
    /\ UNCHANGED <<sockets, cycles, others>>

Subscribe(c) == \E data \in Payloads : SubscribeWith(c, data, FALSE)

\* socket.on('unsubscribe'), with the call of stopUpdateInterval.
UnsubscribeWith(c, data) ==
    /\ sockets[c] = "open"
    /\ LET r == UnsubscribeHandler(connections, subscriptions, updateInterval, c, data) IN
       /\ connections' = r.connections
       /\ subscriptions' = r.subscriptions
       /\ updateInterval' = (updateInterval /\ ~r.stop)
       /\ activeTimers' = IF r.stop THEN activeTimers - 1 ELSE activeTimers
    /\ UNCHANGED <<sockets, cycles, initialFetches, others>>

Unsubscribe(c) == \E data \in Payloads : UnsubscribeWith(c, data)

\* A disconnect that aborts the cycles in flight.
DisconnectCancels(c) ==
    /\ sockets[c] = "open"
    /\ sockets' = [sockets EXCEPT ![c] = "closed"]
    /\ LET r == DisconnectHandler(connections, subscriptions, updateInterval, c) IN
       /\ connections' = r.connections
       /\ subscriptions' = r.subscriptions
       /\ updateInterval' = (updateInterval /\ ~r.stop)
       /\ activeTimers' = IF r.stop THEN activeTimers - 1 ELSE activeTimers
    /\ cycles' = <<>>
    /\ UNCHANGED <<initialFetches, others>>

\* socket.on('disconnect'), with the call of stopUpdateInterval.
Disconnect(c) ==
    /\ sockets[c] = "open"
    /\ sockets' = [sockets EXCEPT ![c] = "closed"]
    /\ LET r == DisconnectHandler(connections, subscriptions, updateInterval, c) IN
       /\ connections' = r.connections
       /\ subscriptions' = r.subscriptions
       /\ updateInterval' = (updateInterval /\ ~r.stop)
       /\ activeTimers' = IF r.stop THEN activeTimers - 1 ELSE activeTimers
    /\ UNCHANGED <<cycles, initialFetches, others>>

\* A callback that starts a cycle whether or not the index holds a key.
StartCycleAlways(inFlight, index) == Append(inFlight, NewCycle(index))

\* broadcastStockUpdates up to its first await: it returns at once when the
\* index is empty, and nothing in it looks at a cycle already in flight.
StartCycle(inFlight, index) ==
    IF Len(index) = 0 THEN inFlight ELSE Append(inFlight, NewCycle(index))

\* The setInterval callback, followed while fewer than MaxCyclesInFlight
\* cycles are in flight: a tick can find an earlier cycle still suspended.
Tick ==
    /\ activeTimers > 0
    /\ Len(cycles) < MaxCyclesInFlight
    /\ cycles' = StartCycle(cycles, subscriptions)
    /\ UNCHANGED <<sockets, connections, subscriptions, updateInterval, activeTimers,
                   initialFetches, others>>

\* The setInterval callback, followed while fewer than MaxLiveCycles cycles
\* are in flight.
TickLive ==
    /\ activeTimers > 0
    /\ Len(cycles) < MaxLiveCycles
    /\ cycles' = StartCycle(cycles, subscriptions)
    /\ UNCHANGED <<sockets, connections, subscriptions, updateInterval, activeTimers,
                   initialFetches, others>>

\* Whether the batch a cycle is at is its last one.
LastBatch(cycle) == ~(cycle.i + batchSize < Len(cycle.symbols))

\* The end of the loop body for a batch: the 100 ms delay is awaited when
\* another batch follows; otherwise the loop is left and the function goes on
\* to the broadcast without suspending (stage "deliver" marks an invocation
\* that broadcasts and ends in the run that returns it).
AfterLoopBody(cycle) ==
    [cycle EXCEPT !.stage = IF LastBatch(cycle) THEN "deliver" ELSE "delay",
                  !.left = <<>>]

\* broadcastStockUpdates from the answer of getMultipleStockPrices to its next
\* await: the result is added to allUpdates and allErrors; with a stock
\* returned, the update of the first one is awaited; with none, or when the
\* call has thrown, the loop body ends.
BatchAnsweredHandler(cycle, upstream) ==
    LET res == getMultipleStockPrices(Batch(cycle.symbols, cycle.i), upstream)
        after == AfterBatch(cycle, upstream)
    IN  IF ~res.threw /\ res.stocks # <<>>
        THEN [after EXCEPT !.stage = "upsert", !.left = res.stocks]
        ELSE AfterLoopBody(after)

\* From the return of Stock.findOneAndUpdate to the next await: a rejection is
\* caught and logged by the try of the update itself, so that saved changes
\* nothing; the update of the next stock is awaited, or the loop body ends.
UpsertReturnedHandler(cycle, saved) ==
    IF Tail(cycle.left) # <<>>
    THEN [cycle EXCEPT !.left = Tail(@)]
    ELSE AfterLoopBody(cycle)

\* From the end of the delay to the next await: the next batch is requested.
DelayPassedHandler(cycle) ==
    [cycle EXCEPT !.i = @ + batchSize, !.stage = "fetch"]

\* The emits of the broadcast of an invocation whose loop has ended with the
\* results in done, when emit throws for the sockets in failing: the index,
\* the connection table and the sockets are read at the time of the broadcast.
Delivery(done, failing) ==
    EmitsMade(BroadcastEmits(done, subscriptions, connections, sockets), failing)

\* The <<socket, symbol>> pairs of the stock_update messages in emits.
UpdatesIn(emits) ==
    {<<emits[k].to, emits[k].symbols[1]>> :
        k \in {j \in 1..Len(emits) : emits[j].ev = "stock_update"}}

\* The cycles left in flight when the k-th one has ended.
RemoveAt(seq, k) ==
    [j \in 1..(Len(seq) - 1) |-> IF j < k THEN seq[j] ELSE seq[j + 1]]

\* One run of the k-th invocation, which leaves it as next: it stays in
\* flight at its next await, or it has broadcast and ended.  With order, the
\* cycles started earlier and still in flight record what was sent.
Resumed(k, next, failing, order) ==
    /\ cycles' =
         IF next.stage = "deliver"
         THEN RemoveAt([j \in 1..Len(cycles) |->
                          IF order /\ j < k
                          THEN [cycles[j] EXCEPT !.overtaken =
                                  @ \cup UpdatesIn(Delivery(next, failing))]
                          ELSE cycles[j]], k)
         ELSE [cycles EXCEPT ![k] = next]
    /\ UNCHANGED <<sockets, connections, subscriptions, updateInterval,
                   activeTimers, initialFetches, watchlists, forces>>

\* A continuation that clears the timer when the batch has thrown.
BatchReturnWithUnregisters(k, upstream, failing, order) ==
    /\ cycles[k].stage = "fetch"
    /\ LET next == BatchAnsweredHandler(cycles[k], upstream) IN
       cycles' = IF next.stage = "deliver" THEN RemoveAt(cycles, k)
                 ELSE [cycles EXCEPT ![k] = next]
    /\ updateInterval' = (updateInterval /\ upstream.ok)
    /\ activeTimers' = IF upstream.ok THEN activeTimers ELSE 0
    /\ UNCHANGED <<sockets, connections, subscriptions, initialFetches, watchlists,
                   forces>>

\* The run of broadcastStockUpdates that the answer of the awaited batch
\* starts.
BatchReturnWith(k, upstream, failing, order) ==
    /\ cycles[k].stage = "fetch"
    /\ Resumed(k, BatchAnsweredHandler(cycles[k], upstream), failing, order)

\* The run that the return of the awaited database update starts.
UpsertReturnWith(k, saved, failing, order) ==
    /\ cycles[k].stage = "upsert"
    /\ Resumed(k, UpsertReturnedHandler(cycles[k], saved), failing, order)

\* The run that the end of the delay between two batches starts.
DelayDone ==
    \E k \in 1..Len(cycles) :
        /\ cycles[k].stage = "delay"
        /\ Resumed(k, DelayPassedHandler(cycles[k]), {}, FALSE)
        /\ UNCHANGED delivered

Outcomes(cycle) ==
    {Upstream(FALSE, {})}
    \cup {Upstream(TRUE, found) : found \in SUBSET Range(Batch(cycle.symbols, cycle.i))}

\* The results an invocation can broadcast in its next run: the ones it has
\* when the last database update of its last batch returns, or the ones an
\* answer of its last batch gives that has no stock to write.
FinalResults(cycle) ==
    IF cycle.stage = "fetch"
    THEN {next \in {BatchAnsweredHandler(cycle, upstream) : upstream \in Outcomes(cycle)} :
             next.stage = "deliver"}
    ELSE IF cycle.stage = "upsert"
    THEN {next \in {UpsertReturnedHandler(cycle, saved) : saved \in BOOLEAN} :
             next.stage = "deliver"}
    ELSE {}

\* socket.io's emit does not throw.
BatchReturn ==
    \E k \in 1..Len(cycles) : \E upstream \in Outcomes(cycles[k]) :
        BatchReturnWith(k, upstream, {}, FALSE) /\ UNCHANGED delivered

UpsertReturn ==
    \E k \in 1..Len(cycles) : \E saved \in BOOLEAN :
        UpsertReturnWith(k, saved, {}, FALSE) /\ UNCHANGED delivered

\* The same continuations with a transport whose emit throws for some sockets.
BatchReturnEmitThrows ==
    \E k \in 1..Len(cycles) : \E upstream \in Outcomes(cycles[k]) :
        \E failing \in SUBSET Conns \ {{}} :
            BatchReturnWith(k, upstream, failing, FALSE) /\ UNCHANGED delivered

UpsertReturnEmitThrows ==
    \E k \in 1..Len(cycles) : \E saved \in BOOLEAN :
        \E failing \in SUBSET Conns \ {{}} :
            UpsertReturnWith(k, saved, failing, FALSE) /\ UNCHANGED delivered

(***************************************************************************)
(* socket.on('authenticate')                                               *)
(***************************************************************************)
\* The payloads of authenticate: a user id ("" when it is missing) and a
\* token.  The handler destructures the token and never reads it.
AuthData(userId, token) == [userId |-> userId, token |-> token]

AuthPayloads ==
    { AuthData("u1", "token-u1"), AuthData("u1", "forged"),
      AuthData("u1", "missing"), AuthData("", "token-u1") }

\* AuthVerifier.verify(token): the user a token validates for, "null" when
\* the token fails validation.
verify(token) == IF token = "token-u1" THEN "u1" ELSE "null"

\* if (userId) { connection.userId = userId; emit authenticated } else
\* emit authentication_error
AuthenticateHandler(conns, clientId, data) ==
    IF data.userId = ""
    THEN [connections |-> conns,
          emits |-> <<Msg(clientId, "authentication_error", <<>>, <<>>,
                          "Invalid credentials")>>]
    ELSE IF clientId \in DOMAIN conns
    THEN [connections |-> [conns EXCEPT ![clientId].userId = data.userId],
          emits |-> <<Msg(clientId, "authenticated", <<>>, <<>>, "")>>]
    ELSE [connections |-> conns, emits |-> <<>>]

Authenticate(c) ==
    /\ sockets[c] = "open"
    /\ \E data \in AuthPayloads :
          connections' = AuthenticateHandler(connections, c, data).connections
    /\ UNCHANGED <<sockets, subscriptions, updateInterval, activeTimers, cycles,
                   initialFetches, others>>

(***************************************************************************)
(* socket.on('subscribe_watchlist')                                        *)
(***************************************************************************)
MaxWatchlists == 1

\* data.userId of the payloads ("" when it is missing).
WatchlistUsers == {"u1", ""}

\* What the awaited lookup of the default watchlist gives: it throws, or it
\* resolves to no watchlist, to a watchlist without items, or to a watchlist
\* with the symbols of its items.
Lookup(kind, symbols) == [kind |-> kind, symbols |-> symbols]

LookupOutcomes ==
    { Lookup("threw", <<>>), Lookup("none", <<>>), Lookup("empty", <<>>),
      Lookup("items", <<AAPL, MSFT>>) }

\* The handler up to its await: the messages emitted and whether the lookup
\* is started.
WatchlistRequestHandler(clientId, userId) ==
    IF userId = ""
    THEN [emits |-> <<Msg(clientId, "subscription_error", <<>>, <<>>,
                          "User ID required for watchlist subscription")>>,
          lookup |-> FALSE]
    ELSE [emits |-> <<>>, lookup |-> TRUE]

\* The handler after its await.  socket.emit('subscribe', {symbols}) sends an
\* event named subscribe to the client: no handler of the server runs, and
\* the connection table, the index and the timer stay as they are.
WatchlistReturnHandler(conns, index, timer, clientId, outcome) ==
    [connections |-> conns,
     subscriptions |-> index,
     start |-> FALSE,
     emits |->
        IF outcome.kind = "threw"
        THEN <<Msg(clientId, "subscription_error", <<>>, <<>>,
                   "Failed to subscribe to watchlist")>>
        ELSE IF outcome.kind \in {"none", "empty"}
        THEN <<Msg(clientId, "watchlist_subscribed", <<>>, <<>>, "")>>
        ELSE <<Msg(clientId, "subscribe", outcome.symbols, <<>>, "")>>]

SubscribeWatchlist(c) ==
    /\ sockets[c] = "open"
    /\ \E userId \in WatchlistUsers :
          LET r == WatchlistRequestHandler(c, userId) IN
          /\ r.lookup => Len(watchlists) < MaxWatchlists
          /\ watchlists' = IF r.lookup
                           THEN Append(watchlists, [to |-> c, userId |-> userId])
                           ELSE watchlists
    /\ UNCHANGED <<sockets, connections, subscriptions, updateInterval, activeTimers,
                   cycles, initialFetches, forces, delivered>>

WatchlistReturn ==
    \E k \in 1..Len(watchlists) : \E outcome \in LookupOutcomes :
        LET r == WatchlistReturnHandler(connections, subscriptions, updateInterval,
                                        watchlists[k].to, outcome) IN
        /\ connections' = r.connections
        /\ subscriptions' = r.subscriptions
        /\ updateInterval' = (updateInterval \/ r.start)
        /\ activeTimers' = IF r.start THEN activeTimers + 1 ELSE activeTimers
        /\ watchlists' = RemoveAt(watchlists, k)
        /\ UNCHANGED <<sockets, cycles, initialFetches, forces, delivered>>

(***************************************************************************)
(* sendInitialStockData                                                    *)
(***************************************************************************)
\* What the awaits of one symbol give: Stock.findOne finds a fresh document,
\* a stale one or none, or throws; getStockPrice with the upsert that follows
\* it succeeds or throws.
Snapshot(db, api) == [db |-> db, api |-> api]

SnapshotOutcomes ==
    {Snapshot(db, api) : db \in {"fresh", "stale", "none", "throws"},
                         api \in {"ok", "fails"}}

\* Whether the loop ends with a document for the symbol: a throw of findOne
\* goes to the catch of the symbol; a throw of the fetch or of the upsert is
\* caught and logged, and leaves the document findOne gave.
HasStock(outcome) ==
    /\ outcome.db # "throws"
    /\ outcome.db = "fresh" \/ outcome.db = "stale" \/ outcome.api = "ok"

\* An all-or-nothing snapshot: one symbol without a document and the client
\* is sent initial_data_error.
sendInitialStockDataAllOrNothing(to, symbols, outcomes) ==
    IF \E i \in 1..Len(symbols) : ~HasStock(outcomes[i])
    THEN <<Msg(to, "initial_data_error", <<>>, <<>>, "Failed to fetch initial data")>>
    ELSE <<Msg(to, "initial_data", symbols, <<>>, "")>>

\* The message of sendInitialStockData for the outcomes of its symbols.
sendInitialStockData(to, symbols, outcomes) ==
    LET ok == {i \in 1..Len(symbols) : HasStock(outcomes[i])}
        at(set, n) == CHOOSE i \in set : Cardinality({j \in set : j <= i}) = n
        bad == (1..Len(symbols)) \ ok
    IN  <<Msg(to, "initial_data",
              [n \in 1..Cardinality(ok) |-> symbols[at(ok, n)]],
              [n \in 1..Cardinality(bad) |->
                  [symbol |-> symbols[at(bad, n)],
                   error |-> IF outcomes[at(bad, n)].db = "throws"
                             THEN "findOne failed"
                             ELSE "Unable to fetch initial data"]],
              "")>>

\* socket.on('subscribe') with the snapshot fetch it starts followed.
SubscribeFollowed(c) == \E data \in Payloads : SubscribeWith(c, data, TRUE)

\* sendInitialStockData from its last await to its end.
InitialDataDone ==
    \E k \in 1..Len(initialFetches) :
    \E outcomes \in [1..Len(initialFetches[k].symbols) -> SnapshotOutcomes] :
        /\ Len(sendInitialStockData(initialFetches[k].to, initialFetches[k].symbols,
                                    outcomes)) = 1
        /\ initialFetches' = RemoveAt(initialFetches, k)
        /\ UNCHANGED <<sockets, connections, subscriptions, updateInterval,
                       activeTimers, cycles, others>>

(***************************************************************************)
(* getStockPrice (src/unnamed/part_002): getStockPriceFromIEX first,       *)
(* getStockPriceFromAlphaVantage when the first has thrown.  What each     *)
(* provider function does is an input: iex and av are "ok" or "fails" (an  *)
(* HTTP error, a timeout, no data, a missing API key).                     *)
(***************************************************************************)
ProviderOutcomes == {"ok", "fails"}

Quote(threw, source, calls) == [threw |-> threw, source |-> source, calls |-> calls]

\* A lookup that gives up when IEX has thrown.
getStockPriceNoFallback(symbol, iex, av) ==
    IF ~symbol.isString \/ symbol.chars = <<>>
    THEN Quote(TRUE, "none", <<>>)
    ELSE IF iex = "ok" THEN Quote(FALSE, "iex", <<"iex">>)
    ELSE Quote(TRUE, "none", <<"iex">>)

\* Whether the lookup throws, the provider whose quote it returns, and the
\* provider functions it has called, in order.  A symbol that is no string or
\* is the empty string throws before any call.
getStockPrice(symbol, iex, av) ==
    IF ~symbol.isString \/ symbol.chars = <<>>
    THEN Quote(TRUE, "none", <<>>)
    ELSE IF iex = "ok" THEN Quote(FALSE, "iex", <<"iex">>)
    ELSE IF av = "ok" THEN Quote(FALSE, "alphavantage", <<"iex", "alphavantage">>)
    ELSE Quote(TRUE, "none", <<"iex", "alphavantage">>)

\* The requests getMultipleStockPrices makes: one to IEX for the whole batch,
\* and none when the array is empty or longer than 100, or when
\* IEX_CLOUD_API_KEY is not set (configured = FALSE): getIEXApiKey then throws
\* before the request, and the call fails as it does for a request that
\* failed.
getMultipleStockPricesCalls(symbols, configured) ==
    IF Len(symbols) = 0 \/ Len(symbols) > 100 \/ ~configured
    THEN <<>>
    ELSE <<"iex">>

\* The outcome of the awaits of one symbol in sendInitialStockData, from what
\* Stock.findOne gives, what the providers do and whether the update of the
\* database succeeds: getStockPrice is called for a stale or missing document.
SnapshotOf(symbol, db, iex, av, save) ==
    Snapshot(db, IF ~getStockPrice(Str(symbol), iex, av).threw /\ save = "ok"
                 THEN "ok" ELSE "fails")

\* sendInitialStockData from its last await to its end, with the lookups of
\* its symbols.
InitialDataLooked ==
    \E k \in 1..Len(initialFetches) :
    LET f == initialFetches[k]
        each == 1..Len(f.symbols)
    IN  \E dbs \in [each -> {"fresh", "stale", "none", "throws"}] :
        \E iexs \in [each -> ProviderOutcomes] : \E avs \in [each -> ProviderOutcomes] :
        \E saves \in [each -> ProviderOutcomes] :
            /\ Len(sendInitialStockData(f.to, f.symbols,
                      [n \in each |-> SnapshotOf(f.symbols[n], dbs[n], iexs[n],
                                                 avs[n], saves[n])])) = 1
            /\ initialFetches' = RemoveAt(initialFetches, k)
            /\ UNCHANGED <<sockets, connections, subscriptions, updateInterval,
                           activeTimers, cycles, others>>

(***************************************************************************)
(* forceStockUpdate                                                        *)
(***************************************************************************)
MaxForces == 1

\* The symbols argument of forceStockUpdate.
ForceArgs == { NotAnArray, ArrayOf(<<AAPL>>), ArrayOf(<<AAPL, MSFT>>) }

\* forceStockUpdate up to its first await: it throws when symbols is no array.
ForceStartHandler(symbols) ==
    IF ~symbols.isArray
    THEN [threw |-> TRUE, invocation |-> <<>>]
    ELSE [threw |-> FALSE,
          invocation |-> <<[stage |-> "fetch", symbols |-> symbols.items]>>]

\* forceStockUpdate after the await of getMultipleStockPrices: a throw is
\* logged and thrown again; otherwise the loop over the stocks begins and
\* awaits the update of the first one.
ForceFetchedHandler(invocation, upstream) ==
    LET res == getMultipleStockPrices(invocation.symbols, upstream)
    IN  IF res.threw THEN [threw |-> TRUE, invocation |-> <<>>]
        ELSE IF res.stocks = <<>> THEN [threw |-> FALSE, invocation |-> <<>>]
        ELSE [threw |-> FALSE,
              invocation |-> <<[stage |-> "upsert", symbols |-> res.stocks]>>]

\* A forced update that emits every stock to every connected socket, whether
\* or not it is subscribed to the symbol.
ForceUpsertHandlerToAll(invocation, saved, index, conns, socks) ==
    IF ~saved
    THEN [threw |-> TRUE, emits |-> <<>>, invocation |-> <<>>]
    ELSE LET symbol == Head(invocation.symbols)
             to == SelectSeq(<<"c1", "c2", "c3">>,
                             LAMBDA c : c \in DOMAIN conns /\ socks[c] = "open")
         IN  [threw |-> FALSE,
              emits |-> [k \in 1..Len(to) |->
                            Msg(to[k], "stock_update", <<symbol>>, <<>>, "")],
              invocation |->
                 IF Tail(invocation.symbols) = <<>> THEN <<>>
                 ELSE <<[invocation EXCEPT !.symbols = Tail(@)]>>]

\* forceStockUpdate after the await of Stock.findOneAndUpdate for the first
\* of the stocks left.  The await is in no try of its own: when the update
\* rejects, the function logs and throws, and neither this stock nor the ones
\* after it are broadcast.  Otherwise the stock is emitted to the subscribers
\* of its symbol and the loop goes on.
ForceUpsertHandler(invocation, saved, index, conns, socks) ==
    IF ~saved
    THEN [threw |-> TRUE, emits |-> <<>>, invocation |-> <<>>]
    ELSE LET symbol == Head(invocation.symbols)
             to == Recipients(index, conns, socks, symbol)
         IN  [threw |-> FALSE,
              emits |-> [k \in 1..Len(to) |->
                            Msg(to[k], "stock_update", <<symbol>>, <<>>, "")],
              invocation |->
                 IF Tail(invocation.symbols) = <<>> THEN <<>>
                 ELSE <<[invocation EXCEPT !.symbols = Tail(@)]>>]

\* The invocations in flight when the k-th one has become next (no element
\* when it has ended).
Continued(seq, k, next) ==
    IF next = <<>> THEN RemoveAt(seq, k) ELSE [seq EXCEPT ![k] = next[1]]

ForceStart ==
    /\ Len(forces) < MaxForces
    /\ \E symbols \in ForceArgs :
          forces' = forces \o ForceStartHandler(symbols).invocation
    /\ UNCHANGED <<sockets, connections, subscriptions, updateInterval, activeTimers,
                   cycles, initialFetches, watchlists, delivered>>

ForceFetched ==
    \E k \in 1..Len(forces) :
        /\ forces[k].stage = "fetch"
        /\ \E upstream \in {Upstream(FALSE, {})}
                \cup {Upstream(TRUE, found) : found \in SUBSET Range(forces[k].symbols)} :
              forces' = Continued(forces, k,
                                  ForceFetchedHandler(forces[k], upstream).invocation)
        /\ UNCHANGED <<sockets, connections, subscriptions, updateInterval,
                       activeTimers, cycles, initialFetches, watchlists, delivered>>

ForceUpsertReturn ==
    \E k \in 1..Len(forces) : \E saved \in BOOLEAN :
        /\ forces[k].stage = "upsert"
        /\ forces' = Continued(forces, k,
                               ForceUpsertHandler(forces[k], saved, subscriptions,
                                                  connections, sockets).invocation)
        /\ UNCHANGED <<sockets, connections, subscriptions, updateInterval,
                       activeTimers, cycles, initialFetches, watchlists, delivered>>

Next ==
    \/ \E c \in Conns : Connect(c)
    \/ \E c \in Conns : Subscribe(c)
    \/ \E c \in Conns : Unsubscribe(c)
    \/ \E c \in Conns : Disconnect(c)
    \/ TickLive
    \/ BatchReturn
    \/ UpsertReturn

Spec == Init /\ [][Next]_vars

(***************************************************************************)
(* SpecThrow: Spec with a transport whose emit can throw in a broadcast.   *)
(***************************************************************************)
NextThrow == Next \/ BatchReturnEmitThrows \/ UpsertReturnEmitThrows

SpecThrow == Init /\ [][NextThrow]_vars

(***************************************************************************)
(* SpecOrder: two sockets and one symbol, ticks that find a cycle still in *)
(* flight, and every cycle in flight records the updates that cycles       *)
(* started after it have sent.                                             *)
(***************************************************************************)
BatchReturnOrder ==
    \E k \in 1..Len(cycles) : \E upstream \in Outcomes(cycles[k]) :
        BatchReturnWith(k, upstream, {}, TRUE) /\ UNCHANGED delivered

UpsertReturnOrder ==
    \E k \in 1..Len(cycles) : \E saved \in BOOLEAN :
        UpsertReturnWith(k, saved, {}, TRUE) /\ UNCHANGED delivered

\* The payloads of SpecOrder: one symbol, so that every cycle is about it.
OrderPayloads == { ArrayOf(<<Str(AAPL)>>) }

SubscribeOne(c) == \E data \in OrderPayloads : SubscribeWith(c, data, FALSE)

UnsubscribeOne(c) == \E data \in OrderPayloads : UnsubscribeWith(c, data)

NextOrder ==
    \/ \E c \in TwoConns : Connect(c)
    \/ \E c \in TwoConns : SubscribeOne(c)
    \/ \E c \in TwoConns : UnsubscribeOne(c)
    \/ \E c \in TwoConns : Disconnect(c)
    \/ Tick
    \/ BatchReturnOrder
    \/ UpsertReturnOrder

SpecOrder == Init /\ [][NextOrder]_vars

(***************************************************************************)
(* SpecCap: two sockets that subscribe and unsubscribe whole ranges of     *)
(* symbols, so that a connection holds 48 and 50 subscriptions.            *)
(***************************************************************************)
SubscribeBulk(c) == \E data \in BulkPayloads : SubscribeWith(c, data, FALSE)

UnsubscribeBulk(c) == \E data \in BulkPayloads : UnsubscribeWith(c, data)

NextCap ==
    \/ \E c \in TwoConns : Connect(c)
    \/ \E c \in TwoConns : SubscribeBulk(c)
    \/ \E c \in TwoConns : UnsubscribeBulk(c)
    \/ \E c \in TwoConns : Disconnect(c)
    \/ \E c \in TwoConns : SubscribeWatchlist(c)
    \/ WatchlistReturn

SpecCap == Init /\ [][NextCap]_vars

(***************************************************************************)
(* SpecBlank: two sockets whose payloads hold blank strings and fill a     *)
(* connection to 48, 49 and 50 subscriptions, so that a request with a     *)
(* blank entry meets the limit check on both sides: no array,              *)
(* ["S01".."S48"], [" ", "S49"], ["S50"], [""].                            *)
(***************************************************************************)
BlankPayloads ==
    { NotAnArray,
      ArrayOf(SymRange(1, 48)),
      ArrayOf(<<Str(<<" ">>)>> \o SymRange(49, 49)),
      ArrayOf(SymRange(50, 50)),
      ArrayOf(<<Str(<<>>)>>) }

SubscribeBlank(c) == \E data \in BlankPayloads : SubscribeWith(c, data, FALSE)

UnsubscribeBlank(c) == \E data \in BlankPayloads : UnsubscribeWith(c, data)

NextBlank ==
    \/ \E c \in TwoConns : Connect(c)
    \/ \E c \in TwoConns : SubscribeBlank(c)
    \/ \E c \in TwoConns : UnsubscribeBlank(c)
    \/ \E c \in TwoConns : Disconnect(c)

SpecBlank == Init /\ [][NextBlank]_vars

(***************************************************************************)
(* SpecAccount: two sockets that authenticate, ask for their watchlist and *)
(* subscribe.                                                              *)
(***************************************************************************)
NextAccount ==
    \/ \E c \in TwoConns : Connect(c)
    \/ \E c \in TwoConns : Authenticate(c)
    \/ \E c \in TwoConns : SubscribeWatchlist(c)
    \/ WatchlistReturn
    \/ \E c \in TwoConns : Subscribe(c)
    \/ \E c \in TwoConns : Unsubscribe(c)
    \/ \E c \in TwoConns : Disconnect(c)

SpecAccount == Init /\ [][NextAccount]_vars

(***************************************************************************)
(* SpecSnapshot: two sockets whose subscribe requests are followed to the  *)
(* initial_data message.                                                   *)
(***************************************************************************)
NextSnapshot ==
    \/ \E c \in TwoConns : Connect(c)
    \/ \E c \in TwoConns : SubscribeFollowed(c)
    \/ \E c \in TwoConns : Unsubscribe(c)
    \/ \E c \in TwoConns : Disconnect(c)
    \/ InitialDataDone

SpecSnapshot == Init /\ [][NextSnapshot]_vars

(***************************************************************************)
(* SpecLive: two sockets, a timer that keeps firing while it is active, and *)
(* fetches that return.  delivered records which <<socket, symbol>> pairs  *)
(* the broadcasts have sent a message to an odd number of times.           *)
(***************************************************************************)
\* The <<socket, symbol>> pairs of the messages in emits.
PairsIn(emits) == {<<emits[k].to, emits[k].symbols[1]>> : k \in 1..Len(emits)}

Toggle(set, pairs) == (set \ pairs) \cup (pairs \ set)

\* The messages of the run that leaves an invocation as next: the broadcast
\* when it has ended, none otherwise.
EmitsOf(next) == IF next.stage = "deliver" THEN Delivery(next, {}) ELSE <<>>

BatchReturnObserved ==
    \E k \in 1..Len(cycles) : \E upstream \in Outcomes(cycles[k]) :
        /\ BatchReturnWith(k, upstream, {}, FALSE)
        /\ \E emits \in {EmitsOf(BatchAnsweredHandler(cycles[k], upstream))} :
              delivered' = Toggle(delivered, PairsIn(emits))

UpsertReturnObserved ==
    \E k \in 1..Len(cycles) : \E saved \in BOOLEAN :
        /\ UpsertReturnWith(k, saved, {}, FALSE)
        /\ \E emits \in {EmitsOf(UpsertReturnedHandler(cycles[k], saved))} :
              delivered' = Toggle(delivered, PairsIn(emits))

NextLive ==
    \/ \E c \in TwoConns : Connect(c)
    \/ \E c \in TwoConns : Subscribe(c)
    \/ \E c \in TwoConns : Unsubscribe(c)
    \/ \E c \in TwoConns : Disconnect(c)
    \/ TickLive
    \/ BatchReturnObserved
    \/ UpsertReturnObserved

\* A suspended invocation is resumed, whatever is recorded as delivered: the
\* steps of BatchReturnObserved and UpsertReturnObserved are the steps of
\* FetchReturns that NextLive allows.
FetchReturns ==
    \E k \in 1..Len(cycles) :
        /\ \/ \E upstream \in Outcomes(cycles[k]) :
                 BatchReturnWith(k, upstream, {}, FALSE)
           \/ \E saved \in BOOLEAN : UpsertReturnWith(k, saved, {}, FALSE)
        /\ delivered' \in SUBSET (TwoConns \X {AAPL, MSFT})

\* setInterval fires again and again until clearInterval, every request to
\* the provider returns or times out, and every database update returns.
SpecLive ==
    Init /\ [][NextLive]_vars /\ WF_vars(TickLive) /\ WF_vars(FetchReturns)

(***************************************************************************)
(* SpecForce: two sockets, the scheduler, and forceStockUpdate.            *)
(***************************************************************************)
NextForce ==
    \/ \E c \in TwoConns : Connect(c)
    \/ \E c \in TwoConns : Subscribe(c)
    \/ \E c \in TwoConns : Disconnect(c)
    \/ TickLive
    \/ BatchReturn
    \/ UpsertReturn
    \/ ForceStart
    \/ ForceFetched
    \/ ForceUpsertReturn

SpecForce == Init /\ [][NextForce]_vars


(***************************************************************************)
(* SpecRegistry: three sockets that connect, subscribe, unsubscribe and    *)
(* disconnect in any order; no tick is followed.                           *)
(***************************************************************************)
NextRegistry ==
    \/ \E c \in Conns : Connect(c)
    \/ \E c \in Conns : Subscribe(c)
    \/ \E c \in Conns : Unsubscribe(c)
    \/ \E c \in Conns : Disconnect(c)

SpecRegistry == Init /\ [][NextRegistry]_vars

(***************************************************************************)
(* SpecBatch: two sockets that subscribe to a range of 10 symbols and to a *)
(* range of 2, so that a cycle takes one batch of 10 or of 2 symbols, or a *)
(* batch of 10 and a batch of 2, and a provider that fails for a batch,    *)
(* answers for all of its symbols, or for all but the first.               *)
(***************************************************************************)
BatchPayloads == { ArrayOf(SymRange(1, 10)), ArrayOf(SymRange(11, 12)) }

SubscribeRange(c) == \E data \in BatchPayloads : SubscribeWith(c, data, FALSE)

UnsubscribeRange(c) == \E data \in BatchPayloads : UnsubscribeWith(c, data)

BatchOutcomes(cycle) ==
    LET batch == Batch(cycle.symbols, cycle.i)
    IN  { Upstream(FALSE, {}), Upstream(TRUE, Range(batch)),
          Upstream(TRUE, Range(batch) \ {batch[1]}) }

BatchReturnSome ==
    \E k \in 1..Len(cycles) : \E upstream \in BatchOutcomes(cycles[k]) :
        BatchReturnWith(k, upstream, {}, FALSE) /\ UNCHANGED delivered

NextBatch ==
    \/ \E c \in TwoConns : Connect(c)
    \/ \E c \in TwoConns : SubscribeRange(c)
    \/ \E c \in TwoConns : UnsubscribeRange(c)
    \/ \E c \in TwoConns : Disconnect(c)
    \/ TickLive
    \/ BatchReturnSome
    \/ UpsertReturn
    \/ DelayDone

SpecBatch == Init /\ [][NextBatch]_vars

(***************************************************************************)
(* SpecLookup: two sockets whose subscribe requests are followed through   *)
(* the single-symbol lookups of their snapshots, and the scheduler with    *)
(* its batch lookups.                                                      *)
(***************************************************************************)
NextLookup ==
    \/ \E c \in TwoConns : Connect(c)
    \/ \E c \in TwoConns : SubscribeFollowed(c)
    \/ \E c \in TwoConns : Disconnect(c)
    \/ InitialDataLooked
    \/ TickLive
    \/ BatchReturn
    \/ UpsertReturn

SpecLookup == Init /\ [][NextLookup]_vars

(***************************************************************************)
(* Properties.                                                             *)
(***************************************************************************)
\* The symbols that have a key in the index or are in a connection's own set.
KnownSymbols ==
    Range(MapKeys(subscriptions))
    \cup UNION {connections[c].subscriptions : c \in DOMAIN connections}

\* How many messages ev about symbol s the sequence emits holds for socket c.
Count(emits, c, ev, s) ==
    Cardinality({k \in 1..Len(emits) :
                    emits[k].to = c /\ emits[k].ev = ev /\ emits[k].symbols = <<s>>})

\* <<event, symbol>> of the messages emits holds for socket c.
Received(emits, c) ==
    {<<emits[k].ev, emits[k].symbols>> : k \in {j \in 1..Len(emits) : emits[j].to = c}}

\* The symbols of a list of {symbol, error} entries.
ErrorSymbols(allErrors) == {allErrors[k].symbol : k \in 1..Len(allErrors)}

\* What the subscribe handler would do now for socket c and payload data.
SubscribeNow(c, data) ==
    SubscribeHandler(connections, subscriptions, updateInterval, c, data)

\* C1: for every live connection c and every symbol s, s is in c's own
\* subscription set if and only if c is in the index set of s.
C1_IndexMatchesOwnSets ==
    \A c \in DOMAIN connections : \A s \in KnownSymbols :
        s \in connections[c].subscriptions <=> c \in ClientsOf(subscriptions, s)

\* Two connections with different subscriptions, one socket closed, and a
\* cycle in flight.
C1_Witness ==
    \E c, d, e \in Conns :
        /\ sockets[c] = "open" /\ sockets[d] = "open" /\ sockets[e] = "closed"
        /\ connections[c].subscriptions = {AAPL, MSFT}
        /\ connections[d].subscriptions = {MSFT}
        /\ Len(cycles) > 0

\* C2: the timer is active if and only if the index is not empty.
C2_TimerActiveIffIndexNonEmpty ==
    updateInterval <=> Len(subscriptions) > 0

\* C3: a connection that holds 48 subscriptions and requests 5 new symbols
\* gets 2 of them accepted and 3 rejected, and holds 50.
C3_PartialAcceptance ==
    \A c \in DOMAIN connections : \A data \in BulkPayloads :
        ( /\ Cardinality(connections[c].subscriptions) = 48
          /\ Len(data.items) = 5
          /\ Cardinality(Range(Accepted(data.items))
                         \ connections[c].subscriptions) = 5 )
        => LET r == SubscribeNow(c, data) IN
           /\ r.emits[1].ev = "subscribed"
           /\ Len(r.emits[1].symbols) = 2
           /\ Len(r.emits[1].errors) = 3
           /\ Cardinality(r.connections[c].subscriptions) = 50

\* C4: the step in which c disconnects removes c from every index set, leaves
\* no empty set in the index, deletes c's record and changes no other
\* connection's record or membership.
C4_DisconnectCleansUp ==
    [][\A c \in Conns :
          (sockets[c] = "open" /\ sockets'[c] = "closed")
          => /\ c \notin DOMAIN connections'
             /\ \A k \in 1..Len(subscriptions') :
                   /\ c \notin Range(subscriptions'[k].clients)
                   /\ subscriptions'[k].clients # <<>>
             /\ \A s \in KnownSymbols :
                   ClientsOf(subscriptions', s) = ClientsOf(subscriptions, s) \ {c}
             /\ \A d \in DOMAIN connections \ {c} :
                   d \in DOMAIN connections' /\ connections'[d] = connections[d]
      ]_vars

\* A socket has closed, and a connection that holds a symbol of its own and a
\* symbol shared with another connection can disconnect while a cycle is in
\* flight.
C4_Witness ==
    \E c, d, e \in Conns :
        /\ sockets[c] = "open" /\ sockets[d] = "open" /\ sockets[e] = "closed"
        /\ connections[c].subscriptions = {AAPL, MSFT}
        /\ connections[d].subscriptions = {AAPL}
        /\ Len(cycles) > 0
        /\ updateInterval

\* C5: whatever results a cycle ends with, its broadcast emits each
\* stock_update and each stock_error of the cycle once to every open socket
\* that is in the symbol's index set at the moment of the broadcast, and
\* nothing else.
C5_DeliveredToCurrentSubscribers ==
    \A k \in 1..Len(cycles) : \A done \in FinalResults(cycles[k]) :
        LET emits == Delivery(done, {})
        IN  /\ \A j \in 1..Len(emits) :
                  /\ emits[j].ev \in {"stock_update", "stock_error"}
                  /\ Len(emits[j].symbols) = 1
                  /\ emits[j].symbols[1] \in Range(done.symbols)
            /\ \A c \in Conns : \A s \in KnownSymbols \cup Range(done.symbols) :
                  LET member == c \in ClientsOf(subscriptions, s) /\ sockets[c] = "open"
                  IN  /\ Count(emits, c, "stock_update", s) =
                            IF member /\ s \in Range(done.allUpdates) THEN 1 ELSE 0
                      /\ Count(emits, c, "stock_error", s) =
                            IF member /\ s \in ErrorSymbols(done.allErrors) THEN 1 ELSE 0

\* A cycle is in flight whose snapshot holds a symbol that now has two
\* subscribers and a symbol that has none any more, and an open socket is not
\* subscribed to the first.
C5_Witness ==
    \E k \in 1..Len(cycles) : \E s, u \in Range(cycles[k].symbols) :
        /\ Cardinality(ClientsOf(subscriptions, s)) = 2
        /\ ~MapHas(subscriptions, u)
        /\ \E c \in Conns : sockets[c] = "open" /\ c \notin ClientsOf(subscriptions, s)

\* C6: the answer of a cycle's fetch makes every symbol it has a quote for an
\* update of the cycle and every other symbol of the snapshot an error of the
\* cycle; and when the cycle ends with an error for symbol bad and an update
\* for symbol good, a connection that holds only bad gets stock_error for bad,
\* one that holds only good gets stock_update for good, one that holds both
\* gets both; every message is about one symbol.
C6_PartialFailureIsolated ==
    \A k \in 1..Len(cycles) :
        /\ cycles[k].stage = "fetch" =>
              \A upstream \in Outcomes(cycles[k]) :
                 LET next == BatchAnsweredHandler(cycles[k], upstream) IN
                 /\ Range(next.allUpdates)
                       = Range(cycles[k].allUpdates) \cup upstream.found
                 /\ ErrorSymbols(next.allErrors)
                       = ErrorSymbols(cycles[k].allErrors)
                         \cup (Range(Batch(cycles[k].symbols, cycles[k].i))
                                  \ upstream.found)
        /\ \A done \in FinalResults(cycles[k]) :
              LET emits == Delivery(done, {}) IN
              /\ \A j \in 1..Len(emits) :
                    emits[j].ev \in {"stock_update", "stock_error"}
                    /\ Len(emits[j].symbols) = 1
              /\ \A bad \in ErrorSymbols(done.allErrors) :
                 \A good \in Range(done.allUpdates) :
                 \A c \in DOMAIN connections :
                    LET own == connections[c].subscriptions IN
                    /\ own = {bad} => Received(emits, c) = {<<"stock_error", <<bad>>>>}
                    /\ own = {good} => Received(emits, c) = {<<"stock_update", <<good>>>>}
                    /\ own = {bad, good} =>
                          Received(emits, c) = {<<"stock_error", <<bad>>>>,
                                                <<"stock_update", <<good>>>>}

\* A cycle over both symbols is in flight and three connections hold one
\* symbol, the other symbol, and both.
C6_Witness ==
    /\ \E k \in 1..Len(cycles) : Range(cycles[k].symbols) = {AAPL, MSFT}
    /\ \E c, d, e \in DOMAIN connections :
          /\ connections[c].subscriptions = {AAPL}
          /\ connections[d].subscriptions = {MSFT}
          /\ connections[e].subscriptions = {AAPL, MSFT}

\* C7: when emit throws for the sockets in failing, every message of the
\* broadcast for another socket is still emitted.
C7_EmitFailureIsolated ==
    \A k \in 1..Len(cycles) : \A done \in FinalResults(cycles[k]) :
    \A failing \in SUBSET Conns :
        LET plan == Delivery(done, {})
            made == Delivery(done, failing)
        IN  \A j \in 1..Len(plan) :
                plan[j].to \notin failing => plan[j] \in Range(made)

\* C8: at most one broadcast cycle is between its start and its end.
C8_NoOverlappingCycles == Len(cycles) <= 1

\* C9: no cycle sends a socket a stock_update for a symbol after a cycle
\* started by a later tick has sent that socket one for that symbol.
C9_UpdatesInTickOrder ==
    \A k \in 1..Len(cycles) : \A done \in FinalResults(cycles[k]) :
        UpdatesIn(Delivery(done, {})) \cap cycles[k].overtaken = {}

\* C10: a subscribe request for a symbol the connection already holds is
\* acknowledged with the symbol accepted and no error, and changes nothing.
C10_ResubscribeIdempotent ==
    \A c \in DOMAIN connections : \A s \in connections[c].subscriptions :
        LET r == SubscribeNow(c, ArrayOf(<<Str(s)>>)) IN
        /\ r.emits[1].ev = "subscribed"
        /\ s \in Range(r.emits[1].symbols)
        /\ r.emits[1].errors = <<>>
        /\ r.connections = connections
        /\ r.subscriptions = subscriptions

\* C11: every key of the index maps to a set that is not empty: a set that
\* unsubscribe or disconnect empties is deleted in the same handler step.
C11_NoEmptyIndexSets ==
    \A k \in 1..Len(subscriptions) : subscriptions[k].clients # <<>>

\* A symbol that a cycle in flight took from the index has lost its last
\* subscriber since, a socket has closed, and the index holds another symbol.
C11_Witness ==
    /\ \E k \in 1..Len(cycles) : \E s \in Range(cycles[k].symbols) :
          ~MapHas(subscriptions, s)
    /\ \E c \in Conns : sockets[c] = "closed"
    /\ Len(subscriptions) > 0

\* C12: a connection's own set never holds more than 50 symbols, whatever
\* subscribe, unsubscribe and subscribe_watchlist requests it has sent,
\* requests that repeat a symbol included.
C12_AtMostFiftySubscriptions ==
    \A c \in DOMAIN connections : Cardinality(connections[c].subscriptions) <= 50

\* A connection holds 50 symbols while its watchlist lookup is awaited, and a
\* payload that repeats a symbol can be sent.
C12_Witness ==
    \E c \in DOMAIN connections :
        /\ Cardinality(connections[c].subscriptions) = 50
        /\ \E k \in 1..Len(watchlists) : watchlists[k].to = c
        /\ \E data \in BulkPayloads :
              Cardinality(Range(data.items)) < Len(data.items)

\* C13: when the lookup of a subscribe_watchlist request of a connected
\* socket c resolves to a watchlist with items, then after the handler c is
\* subscribed to every symbol of the watchlist (within the limit), the timer is
\* active, and c has been sent watchlist_subscribed or subscription_error.
C13_WatchlistSubscribes ==
    \A k \in 1..Len(watchlists) : \A outcome \in LookupOutcomes :
        LET c == watchlists[k].to IN
        ( /\ outcome.kind = "items"
          /\ c \in DOMAIN connections
          /\ Cardinality(connections[c].subscriptions \cup Range(outcome.symbols)) <= 50 )
        => LET r == WatchlistReturnHandler(connections, subscriptions,
                                           updateInterval, c, outcome)
           IN  /\ Range(outcome.symbols) \subseteq r.connections[c].subscriptions
               /\ \A s \in Range(outcome.symbols) : c \in ClientsOf(r.subscriptions, s)
               /\ (updateInterval \/ r.start)
               /\ \E j \in 1..Len(r.emits) :
                     r.emits[j].ev \in {"watchlist_subscribed", "subscription_error"}

\* C14: an authenticate message binds its user id to the connection only when
\* its token validates for that user; any other message leaves the user id
\* of the connection as it was.
C14_UserIdOnlyAfterVerification ==
    \A c \in DOMAIN connections : \A data \in AuthPayloads :
        LET r == AuthenticateHandler(connections, c, data) IN
        verify(data.token) # data.userId
        => r.connections[c].userId = connections[c].userId

\* An empty or whitespace-only string of a payload.
IsBlank(symbol) ==
    symbol.isString /\ \A i \in 1..Len(symbol.chars) : symbol.chars[i] = " "

\* Whether a payload is malformed: no array, or an array with a blank string.
Malformed(data) ==
    ~data.isArray \/ \E k \in 1..Len(data.items) : IsBlank(data.items[k])

\* The payloads of Spec and of SpecBlank, and two payloads that hold nothing
\* but blank strings.
MalformedOrNot ==
    Payloads \cup BlankPayloads
    \cup { ArrayOf(<<Str(<<>>)>>), ArrayOf(<<Str(<<" ", " ">>), Str(<<>>)>>) }

\* C15, as claimed: a subscribe payload that is no array or that holds an
\* empty or whitespace-only string leaves the connection's set, the index and
\* the timer unchanged.
C15_MalformedChangesNothing ==
    \A c \in DOMAIN connections : \A data \in MalformedOrNot :
        Malformed(data)
        => LET r == SubscribeNow(c, data) IN
           /\ r.connections = connections
           /\ r.subscriptions = subscriptions
           /\ ~r.start

\* C15, amended: a payload that is no array is rejected with
\* subscription_error and changes nothing; an array whose number of entries,
\* blank ones included, added to the number of subscriptions held exceeds 50
\* is rejected as a whole with subscription_error and changes nothing; in
\* any other array a blank string is rejected alone: it is listed in the
\* errors of the acknowledgement as "Invalid symbol" and never added, the
\* other strings of the request are subscribed, and a payload of blank
\* strings only changes nothing.
C15_BlankEntriesRejectedAlone ==
    \A c \in DOMAIN connections : \A data \in MalformedOrNot :
        LET r == SubscribeNow(c, data)
            own == connections[c].subscriptions
            blank == {k \in 1..Len(data.items) : IsBlank(data.items[k])}
            over == Cardinality(own) + Len(data.items) > 50
        IN  /\ ~data.isArray =>
                  /\ r.emits = <<Msg(c, "subscription_error", <<>>, <<>>,
                                     "Invalid symbols array")>>
                  /\ r.connections = connections
                  /\ r.subscriptions = subscriptions
                  /\ ~r.start
            /\ (data.isArray /\ over) =>
                  /\ r.emits = <<Msg(c, "subscription_error", <<>>, <<>>,
                                     "Maximum 50 subscriptions allowed per client")>>
                  /\ r.connections = connections
                  /\ r.subscriptions = subscriptions
                  /\ ~r.start
            /\ (data.isArray /\ ~over /\ blank # {}) =>
                  /\ Len(r.emits) = 1 /\ r.emits[1].ev = "subscribed"
                  /\ \A k \in blank :
                        [symbol |-> data.items[k], error |-> "Invalid symbol"]
                            \in Range(r.emits[1].errors)
                  /\ <<>> \notin r.connections[c].subscriptions
                  /\ ~MapHas(r.subscriptions, <<>>)
                  /\ \A k \in 1..Len(data.items) \ blank :
                        data.items[k].isString =>
                            /\ CleanSymbol(data.items[k].chars)
                                  \in r.connections[c].subscriptions
                            /\ c \in ClientsOf(r.subscriptions,
                                               CleanSymbol(data.items[k].chars))
                  /\ blank = 1..Len(data.items) =>
                        /\ r.connections = connections
                        /\ r.subscriptions = subscriptions
                        /\ ~r.start

\* A connection holds 48 symbols, so that [" ", "S49"] passes the limit check
\* and subscribes S49; another holds 50, so that a request of one blank
\* string fails it; and the timer is active.
C15_Witness ==
    \E c, d \in DOMAIN connections :
        /\ Cardinality(connections[c].subscriptions) = 48
        /\ Str(CapSym(49)).chars \notin connections[c].subscriptions
        /\ Cardinality(connections[d].subscriptions) = 50
        /\ updateInterval

\* Whether the snapshot of a symbol fails: findOne throws, or there is no
\* document and the fetch fails.
SnapshotFails(outcome) ==
    outcome.db = "throws" \/ (outcome.db = "none" /\ outcome.api = "fails")

\* C16, in every state: a subscribe request that accepts a symbol emits one
\* subscribed acknowledgement and starts one snapshot; a snapshot in flight
\* ends with one initial_data message to the socket of the request, in which
\* every symbol whose fetch failed is an entry of errors and every other
\* symbol is in stocks.
C16_OneAckOneInitialData ==
    /\ \A c \in DOMAIN connections : \A data \in Payloads :
          LET r == SubscribeNow(c, data) IN
          IF r.emits[1].ev = "subscribed" /\ r.emits[1].symbols # <<>>
          THEN Len(r.emits) = 1 /\ r.initial = r.emits[1].symbols
          ELSE r.initial = <<>>
    /\ \A k \in 1..Len(initialFetches) :
       \A outcomes \in [1..Len(initialFetches[k].symbols) -> SnapshotOutcomes] :
          LET f == initialFetches[k]
              emits == sendInitialStockData(f.to, f.symbols, outcomes)
          IN  /\ Len(emits) = 1
              /\ emits[1].ev = "initial_data" /\ emits[1].to = f.to
              /\ Len(emits[1].symbols) + Len(emits[1].errors) = Len(f.symbols)
              /\ \A i \in 1..Len(f.symbols) :
                    IF SnapshotFails(outcomes[i])
                    THEN /\ f.symbols[i] \in ErrorSymbols(emits[1].errors)
                         /\ \E j \in 1..Len(f.symbols) :
                               f.symbols[j] = f.symbols[i] /\ SnapshotFails(outcomes[j])
                    ELSE f.symbols[i] \in Range(emits[1].symbols)

\* C16, in every step: a snapshot is started only in the step of a subscribe
\* request that acknowledges its symbols, one snapshot in a step, so that the
\* acknowledgement comes before the initial_data message of the request.
C16_AckBeforeInitialData ==
    [][Len(initialFetches') > Len(initialFetches)
       => /\ Len(initialFetches') = Len(initialFetches) + 1
          /\ LET f == initialFetches'[Len(initialFetches')] IN
             \E data \in Payloads :
                LET r == SubscribeNow(f.to, data) IN
                /\ r.emits[1].ev = "subscribed"
                /\ r.emits[1].symbols = f.symbols
                /\ f.symbols # <<>>
                /\ connections' = r.connections
                /\ subscriptions' = r.subscriptions
      ]_vars

\* C16: one subscribed acknowledgement and then one initial_data message for
\* every subscribe request that accepts a symbol; a failed snapshot of a symbol
\* is an entry of initial_data.errors and suppresses nothing.
C16_AckThenInitialData ==
    []C16_OneAckOneInitialData /\ C16_AckBeforeInitialData

\* The snapshot of a request for two symbols is in flight, and the socket of
\* the request holds both.
C16_Witness ==
    \E k \in 1..Len(initialFetches) :
        /\ Len(initialFetches[k].symbols) = 2
        /\ initialFetches[k].to \in DOMAIN connections
        /\ Range(initialFetches[k].symbols)
              \subseteq connections[initialFetches[k].to].subscriptions

\* Whether socket c is connected and holds symbol s.
Holds(c, s) == c \in DOMAIN connections /\ s \in connections[c].subscriptions

\* C17, in every state: a cycle in flight that took symbol s from the index
\* sends a socket that holds s one message for s when it ends: stock_update
\* when the fetch of s succeeded, stock_error otherwise; and the timer is
\* active while a connection holds a symbol.
C17_OneMessagePerCycle ==
    /\ \A k \in 1..Len(cycles) : \A done \in FinalResults(cycles[k]) :
          LET emits == Delivery(done, {}) IN
          \A c \in DOMAIN connections :
          \A s \in connections[c].subscriptions \cap Range(cycles[k].symbols) :
              /\ Count(emits, c, "stock_update", s)
                    = IF s \in Range(done.allUpdates) THEN 1 ELSE 0
              /\ Count(emits, c, "stock_error", s)
                    = IF s \in Range(done.allUpdates) THEN 0 ELSE 1
    /\ (\E c \in DOMAIN connections : connections[c].subscriptions # {})
          => activeTimers > 0

\* C17, in every step: the cycle a tick starts takes every symbol that a
\* connection holds at the tick.
C17_TickTakesHeldSymbols ==
    [][Len(cycles') > Len(cycles)
       => \A c \in DOMAIN connections : \A s \in connections[c].subscriptions :
             s \in Range(cycles'[Len(cycles')].symbols)
      ]_vars

\* C17, eventually: a socket that holds a symbol is sent a message of a cycle
\* for it (stock_update, or stock_error when the fetch failed), unless it
\* gives the symbol up or disconnects first.
C17_EventuallyDelivered ==
    \A c \in TwoConns : \A s \in {AAPL, MSFT} : \A b \in BOOLEAN :
        (Holds(c, s) /\ ((<<c, s>> \in delivered) = b))
            ~> (~Holds(c, s) \/ ((<<c, s>> \in delivered) # b))

\* C17: after a socket subscribes to a symbol and stays subscribed and
\* connected, the next tick's cycle sends it one message for the symbol when
\* it ends, and with a timer that keeps firing the message is sent.
C17_SubscriberGetsCycleMessage ==
    /\ []C17_OneMessagePerCycle
    /\ C17_TickTakesHeldSymbols
    /\ C17_EventuallyDelivered

\* A socket that holds a symbol has been sent a message for it, and a later
\* cycle is in flight.
C17_Witness ==
    \E c \in TwoConns : \E s \in {AAPL, MSFT} :
        /\ Holds(c, s)
        /\ <<c, s>> \in delivered
        /\ \E k \in 1..Len(cycles) : s \in Range(cycles[k].symbols)

\* C18, in every state: whatever results a cycle in flight ends with, its
\* broadcast sends nothing to a socket that has disconnected and one message
\* for each of its symbols to every connection that holds the symbol.
C18_DeliveryAfterDisconnect ==
    \A k \in 1..Len(cycles) : \A done \in FinalResults(cycles[k]) :
        LET emits == Delivery(done, {}) IN
        /\ \A j \in 1..Len(emits) :
              sockets[emits[j].to] = "open" /\ emits[j].to \in DOMAIN connections
        /\ \A s \in Range(cycles[k].symbols) : \A d \in DOMAIN connections :
              s \in connections[d].subscriptions
              => Count(emits, d, "stock_update", s)
                    + Count(emits, d, "stock_error", s) = 1

\* C18, in every step: a disconnect leaves every cycle in flight as it is.
C18_DisconnectKeepsCycles ==
    [][(\E c \in Conns : sockets[c] = "open" /\ sockets'[c] = "closed")
       => cycles' = cycles]_vars

\* C18: a disconnect while the fetch of a cycle is in flight does not cancel
\* the cycle: it ends, sends its results to the connections still subscribed
\* and nothing to the socket that disconnected.
C18_DisconnectDoesNotCancelCycle ==
    []C18_DeliveryAfterDisconnect /\ C18_DisconnectKeepsCycles

\* A socket has closed, and of the two symbols of a cycle in flight one has
\* left the index and the other is held by a connection.
C18_Witness ==
    \E c, d \in Conns :
        /\ sockets[c] = "closed" /\ sockets[d] = "open"
        /\ \E k \in 1..Len(cycles) : Range(cycles[k].symbols) = {AAPL, MSFT}
        /\ connections[d].subscriptions = {AAPL}
        /\ MapKeys(subscriptions) = <<AAPL>>

\* C19, in every state: the timer is active while the index is not empty, and
\* a tick then starts a new cycle over the keys of the index, whatever cycles
\* are in flight.
C19_TimerActiveWhileSubscribed ==
    Len(subscriptions) > 0
    => /\ updateInterval
       /\ activeTimers = 1
       /\ StartCycle(cycles, subscriptions)
             = Append(cycles, [symbols |-> MapKeys(subscriptions), i |-> 0,
                               allUpdates |-> <<>>, allErrors |-> <<>>,
                               overtaken |-> {}, stage |-> "fetch", left |-> <<>>])

\* C19, in every step: the continuation of a cycle, whether its batch was
\* returned or has thrown, leaves the timer as it is.
C19_CycleEndKeepsTimer ==
    [][(cycles' # cycles /\ Len(cycles') <= Len(cycles))
       => (updateInterval' = updateInterval /\ activeTimers' = activeTimers)]_vars

\* C19: a cycle that fails does not stop the timer: the timer stays active
\* while the index is not empty and the next tick starts a new cycle.
C19_FailedCycleKeepsScheduler ==
    []C19_TimerActiveWhileSubscribed /\ C19_CycleEndKeepsTimer

\* The timer is active, the index is not empty, and a cycle is in flight
\* that awaits a batch which can throw, over a snapshot the index has moved
\* away from.
C19_Witness ==
    /\ updateInterval
    /\ Len(subscriptions) > 0
    /\ \E k \in 1..Len(cycles) :
          /\ cycles[k].stage = "fetch"
          /\ Upstream(FALSE, {}) \in Outcomes(cycles[k])
          /\ cycles[k].symbols # MapKeys(subscriptions)

\* C20: a database update that fails propagates nowhere.  Whether or not
\* the update a cycle awaits fails, the cycle goes on in the same way with the
\* same results; and whether or not the update awaited by a forceStockUpdate
\* fails, the function does not throw, emits the stock to the subscribers of
\* its symbol and goes on with the stocks left.
C20_UpsertFailureContained ==
    /\ \A k \in 1..Len(cycles) :
          cycles[k].stage = "upsert" =>
             /\ UpsertReturnedHandler(cycles[k], FALSE)
                   = UpsertReturnedHandler(cycles[k], TRUE)
             /\ UpsertReturnedHandler(cycles[k], FALSE).stage
                   \in {"upsert", "delay", "deliver"}
             /\ UpsertReturnedHandler(cycles[k], FALSE).allUpdates
                   = cycles[k].allUpdates
             /\ UpsertReturnedHandler(cycles[k], FALSE).allErrors
                   = cycles[k].allErrors
    /\ \A k \in 1..Len(forces) : \A saved \in BOOLEAN :
          forces[k].stage = "upsert" =>
          LET r == ForceUpsertHandler(forces[k], saved, subscriptions,
                                      connections, sockets)
              symbol == Head(forces[k].symbols)
          IN  /\ ~r.threw
              /\ \A c \in DOMAIN connections :
                    symbol \in connections[c].subscriptions
                    => Count(r.emits, c, "stock_update", symbol) = 1
              /\ Tail(forces[k].symbols) # <<>>
                    => r.invocation = <<[forces[k] EXCEPT !.symbols = Tail(@)]>>

\* C21, in every state: the stock_update messages of a forceStockUpdate in
\* flight go to the open sockets that are in the index set of the stock's
\* symbol when it is emitted, one message each, and to no other socket.
C21_ForcedUpdatesToSubscribersOnly ==
    \A k \in 1..Len(forces) :
        forces[k].stage = "upsert" =>
        LET r == ForceUpsertHandler(forces[k], TRUE, subscriptions, connections,
                                    sockets)
            symbol == Head(forces[k].symbols)
        IN  /\ \A j \in 1..Len(r.emits) :
                  /\ r.emits[j].ev = "stock_update"
                  /\ r.emits[j].symbols = <<symbol>>
                  /\ r.emits[j].to \in ClientsOf(subscriptions, symbol)
                  /\ symbol \in connections[r.emits[j].to].subscriptions
            /\ \A c \in DOMAIN connections :
                  Count(r.emits, c, "stock_update", symbol)
                     = IF symbol \in connections[c].subscriptions /\ sockets[c] = "open"
                       THEN 1 ELSE 0

\* C21, in every step: a step of forceStockUpdate (its start, the return of
\* its fetch, the return of a database update) leaves the connection table,
\* every connection's own set, the index and the timer as they are, and starts
\* and ends no cycle of the scheduler; and it starts whether or not a timer is
\* active.
C21_ForceLeavesRegistry ==
    [][forces' # forces
       => /\ connections' = connections
          /\ subscriptions' = subscriptions
          /\ updateInterval' = updateInterval
          /\ activeTimers' = activeTimers
          /\ cycles' = cycles
          /\ sockets' = sockets
      ]_vars

\* C21: forceStockUpdate fetches and broadcasts out of band, changes nothing
\* of the registry or the scheduler, and sends its stock_update messages only
\* to the connections subscribed to the updated symbol.
C21_ForceUpdateFrame ==
    []C21_ForcedUpdatesToSubscribersOnly /\ C21_ForceLeavesRegistry

\* A forced update of two symbols awaits its first database update while no
\* cycle of the scheduler is in flight, one open socket holds the first symbol
\* and another open socket does not.
C21_Witness ==
    \E k \in 1..Len(forces) : \E c, d \in DOMAIN connections :
        /\ forces[k].stage = "upsert" /\ Len(forces[k].symbols) = 2
        /\ cycles = <<>>
        /\ Head(forces[k].symbols) \in connections[c].subscriptions
        /\ Head(forces[k].symbols) \notin connections[d].subscriptions
        /\ sockets[c] = "open" /\ sockets[d] = "open"

\* Whether a symbol is in canonical form: not empty, no white space at either
\* end, and no letter that toUpperCase changes.
Canonical(s) ==
    /\ s # <<>>
    /\ ~IsWhiteSpace(s[1]) /\ ~IsWhiteSpace(s[Len(s)])
    /\ \A i \in 1..Len(s) : UpperChar(s[i]) = s[i]

\* "aapl", " AAPL " and "AAPL".
Spellings ==
    { <<"a", "a", "p", "l">>, <<" ", "A", "A", "P", "L", " ">>, AAPL }

\* C22: every key of the index and every symbol of a connection's own set is
\* in canonical form; a subscribe request of a connection for "aapl", " AAPL "
\* or "AAPL" is acknowledged with "AAPL" and adds the connection under the key
\* "AAPL" and no other key, and an unsubscribe request for any of the three
\* removes the connection from the set of that key and from no other.
C22_SymbolsCanonical ==
    /\ \A s \in KnownSymbols : Canonical(s)
    /\ \A c \in DOMAIN connections : \A spelling \in Spellings :
          LET data == ArrayOf(<<Str(spelling)>>)
              own == connections[c].subscriptions
              r == SubscribeNow(c, data)
              u == UnsubscribeHandler(connections, subscriptions, updateInterval,
                                      c, data)
          IN  /\ r.emits = <<Msg(c, "subscribed", <<AAPL>>, <<>>, "")>>
              /\ r.connections[c].subscriptions = own \cup {AAPL}
              /\ Range(MapKeys(r.subscriptions))
                    = Range(MapKeys(subscriptions)) \cup {AAPL}
              /\ \A s \in KnownSymbols \cup {AAPL} :
                    ClientsOf(r.subscriptions, s)
                       = ClientsOf(subscriptions, s) \cup (IF s = AAPL THEN {c} ELSE {})
              /\ u.emits = <<Msg(c, "unsubscribed", <<AAPL>>, <<>>, "")>>
              /\ u.connections[c].subscriptions = own \ {AAPL}
              /\ \A s \in KnownSymbols \cup {AAPL} :
                    ClientsOf(u.subscriptions, s)
                       = ClientsOf(subscriptions, s) \ (IF s = AAPL THEN {c} ELSE {})

\* Two connections hold "AAPL", one of them with another symbol, and a third
\* connection holds nothing.
C22_Witness ==
    \E c, d, e \in DOMAIN connections :
        /\ connections[c].subscriptions = {AAPL, MSFT}
        /\ connections[d].subscriptions = {AAPL}
        /\ connections[e].subscriptions = {}
        /\ ClientsOf(subscriptions, AAPL) = {c, d}

\* C23: a tick that finds the index empty starts no cycle, so that it issues
\* no request to the provider and emits nothing: the cycles in flight are the
\* ones in flight before the tick, and every cycle in flight has taken at
\* least one symbol from the index and requests a batch that is not empty.
C23_EmptyIndexTickDoesNothing ==
    /\ Len(subscriptions) = 0 => StartCycle(cycles, subscriptions) = cycles
    /\ \A k \in 1..Len(cycles) :
          /\ cycles[k].symbols # <<>>
          /\ Batch(cycles[k].symbols, cycles[k].i) # <<>>

\* The timer is active and fires while the index is empty, after a cycle was
\* started and is still in flight.
C23_Witness ==
    /\ activeTimers > 0
    /\ Len(subscriptions) = 0
    /\ Len(cycles) = 1

\* How many entries the results of a cycle hold for symbol s.
Entries(cycle, s) ==
    Cardinality({j \in 1..Len(cycle.allUpdates) : cycle.allUpdates[j] = s})
    + Cardinality({j \in 1..Len(cycle.allErrors) : cycle.allErrors[j].symbol = s})

\* C24, in every state: the batch a cycle in flight is at starts at a
\* multiple of the batch size, is not empty and holds at most 10 symbols (10
\* is not above the provider's bound of 100); the results the cycle holds are
\* one entry for every symbol of the batches answered and none for any other
\* symbol; whatever the awaited call does, the cycle then holds one entry
\* more for every symbol of the batch, which is an error entry for every
\* symbol of the batch when the call has thrown, and the cycle goes on to the
\* delay before the next batch; and after the delay the next batch is
\* requested, which shares no symbol with the batch before it.
C24_BatchesPartitionSnapshot ==
    \A k \in 1..Len(cycles) :
        LET cycle == cycles[k]
            batch == Batch(cycle.symbols, cycle.i)
            fetched == IF cycle.stage = "fetch" THEN cycle.i
                       ELSE cycle.i + Len(batch)
        IN  /\ batchSize <= 100
            /\ cycle.i % batchSize = 0 /\ cycle.i < Len(cycle.symbols)
            /\ Len(batch) >= 1 /\ Len(batch) <= batchSize
            /\ batch = SubSeq(cycle.symbols, cycle.i + 1, cycle.i + Len(batch))
            /\ LastBatch(cycle) <=> cycle.i + Len(batch) = Len(cycle.symbols)
            /\ cycle.stage = "delay" => ~LastBatch(cycle)
            /\ Range(cycle.left) \subseteq Range(batch)
            /\ Len(cycle.allUpdates) + Len(cycle.allErrors) = fetched
            /\ \A n \in 1..Len(cycle.symbols) :
                  Entries(cycle, cycle.symbols[n]) = IF n <= fetched THEN 1 ELSE 0
            /\ cycle.stage = "fetch" =>
                  \A upstream \in BatchOutcomes(cycle) :
                     LET after == BatchAnsweredHandler(cycle, upstream) IN
                     /\ \A n \in 1..Len(cycle.symbols) :
                           Entries(after, cycle.symbols[n])
                              = IF n <= cycle.i + Len(batch) THEN 1 ELSE 0
                     /\ ~upstream.ok =>
                           /\ after.allUpdates = cycle.allUpdates
                           /\ Len(after.allErrors) = Len(cycle.allErrors) + Len(batch)
                           /\ \A n \in 1..Len(batch) :
                                 after.allErrors[Len(cycle.allErrors) + n].symbol
                                    = batch[n]
                           /\ after.stage = IF LastBatch(cycle) THEN "deliver"
                                            ELSE "delay"
            /\ cycle.stage = "delay" =>
                  LET next == DelayPassedHandler(cycle) IN
                  /\ next.stage = "fetch" /\ next.i = cycle.i + batchSize
                  /\ Batch(next.symbols, next.i) # <<>>
                  /\ Range(Batch(next.symbols, next.i)) \cap Range(batch) = {}

\* C24, in every step: a cycle at a batch which is not its last one is in
\* flight after the step, with the same snapshot, at the same batch or, when
\* its delay has passed, awaiting the next one, whether or not the call has
\* thrown: one call is made for every batch, and a batch that fails does not
\* end the cycle.
C24_NextBatchRequested ==
    [][\A k \in 1..Len(cycles) :
          ~LastBatch(cycles[k])
          => \E j \in 1..Len(cycles') :
                /\ cycles'[j].symbols = cycles[k].symbols
                /\ \/ cycles'[j].i = cycles[k].i
                   \/ /\ cycles[k].stage = "delay"
                      /\ cycles'[j].stage = "fetch"
                      /\ cycles'[j].i = cycles[k].i + batchSize
      ]_vars

\* C24: a cycle fetches its snapshot in batches of at most 10 symbols, every
\* symbol in one batch, one call to the provider for every batch, and a batch
\* whose call fails gives an error entry for each of its symbols while the
\* batches after it are still fetched.
C24_BatchedFetch ==
    []C24_BatchesPartitionSnapshot /\ C24_NextBatchRequested

\* A cycle over 12 symbols awaits its second batch, of 2 symbols, after a
\* first batch of 10 whose call threw, and the index has changed since the
\* tick of the cycle.
C24_Witness ==
    \E k \in 1..Len(cycles) :
        /\ Len(cycles[k].symbols) = 12
        /\ cycles[k].i = 10 /\ cycles[k].stage = "fetch"
        /\ Len(cycles[k].allErrors) = 10
        /\ \A n \in 1..10 : cycles[k].allErrors[n].symbol = cycles[k].symbols[n]
        /\ MapKeys(subscriptions) # cycles[k].symbols

\* C25: for every symbol of a snapshot in flight and whatever the providers
\* do, the single-symbol lookup calls IEX first, calls Alpha Vantage if and
\* only if IEX has failed, returns the quote of IEX when IEX succeeds, and
\* throws if and only if both have failed; and for every cycle in flight, the
\* batch lookup makes one request to IEX when the key of IEX is set, none
\* when it is not, and none to Alpha Vantage, and a symbol of the batch
\* without a quote is an error entry of that cycle and no update.
C25_FallbackForSingleLookupsOnly ==
    /\ \A k \in 1..Len(initialFetches) :
       \A n \in 1..Len(initialFetches[k].symbols) :
       \A iex \in ProviderOutcomes : \A av \in ProviderOutcomes :
          LET r == getStockPrice(Str(initialFetches[k].symbols[n]), iex, av) IN
          /\ r.calls # <<>> /\ r.calls[1] = "iex"
          /\ ("alphavantage" \in Range(r.calls)) <=> (iex = "fails")
          /\ Len(r.calls) = IF iex = "fails" THEN 2 ELSE 1
          /\ iex = "ok" => (~r.threw /\ r.source = "iex")
          /\ (iex = "fails" /\ av = "ok") => (~r.threw /\ r.source = "alphavantage")
          /\ r.threw <=> (iex = "fails" /\ av = "fails")
    /\ \A k \in {j \in 1..Len(cycles) : cycles[j].stage = "fetch"} :
       \A upstream \in Outcomes(cycles[k]) :
       \A configured \in {b \in BOOLEAN : upstream.ok => b} :
          LET batch == Batch(cycles[k].symbols, cycles[k].i)
              after == BatchAnsweredHandler(cycles[k], upstream)
              calls == getMultipleStockPricesCalls(batch, configured)
          IN  /\ "alphavantage" \notin Range(calls)
              /\ calls = IF configured THEN <<"iex">> ELSE <<>>
              /\ \A s \in Range(batch) \ upstream.found :
                    /\ s \in ErrorSymbols(after.allErrors)
                    /\ s \notin Range(after.allUpdates)

\* The snapshot of a request for two symbols and a cycle over the two symbols
\* are in flight.
C25_Witness ==
    /\ \E k \in 1..Len(initialFetches) : Len(initialFetches[k].symbols) = 2
    /\ \E k \in 1..Len(cycles) :
          Len(cycles[k].symbols) = 2 /\ cycles[k].stage = "fetch"

\* C26, in every state: at most one interval timer exists, and the handle is
\* set if and only if one exists.
C26_OneTimerAtMost ==
    /\ activeTimers \in {0, 1}
    /\ updateInterval <=> activeTimers = 1

\* C26, in every step: a timer is created only when none is active, and the
\* handle is then set; a timer is cleared only when one is active, and the
\* handle is then null and no timer is left.
C26_StartOnlyWhenIdle ==
    [][/\ activeTimers' > activeTimers
          => (~updateInterval /\ activeTimers = 0
              /\ updateInterval' /\ activeTimers' = 1)
       /\ activeTimers' < activeTimers
          => (updateInterval /\ activeTimers = 1
              /\ ~updateInterval' /\ activeTimers' = 0)
       /\ updateInterval' # updateInterval => activeTimers' # activeTimers
      ]_vars

\* C26: whatever the order of the subscribe, unsubscribe and disconnect events
\* of the connections, at most one timer exists, a timer is created only when
\* none is active, and stopping clears the active one and resets the handle.
C26_SingleTimer ==
    []C26_OneTimerAtMost /\ C26_StartOnlyWhenIdle

\* The timer is active while two connections hold symbols and a third socket
\* has disconnected.
C26_Witness ==
    \E c, d, e \in Conns :
        /\ c # d
        /\ Holds(c, AAPL) /\ Holds(d, MSFT)
        /\ sockets[e] = "closed"
        /\ updateInterval /\ activeTimers = 1

\* C27: whatever the lookups of a snapshot in flight give, the initial_data
\* message that reaches an open socket holds stocks only for symbols the
\* connection of the socket holds when the message is emitted; a socket that
\* has disconnected is sent nothing that reaches it.
C27_SnapshotOnlyForHeldSymbols ==
    \A k \in 1..Len(initialFetches) :
    \A outcomes \in [1..Len(initialFetches[k].symbols) -> SnapshotOutcomes] :
        LET f == initialFetches[k]
            emits == sendInitialStockData(f.to, f.symbols, outcomes)
        IN  \A j \in 1..Len(emits) :
                sockets[emits[j].to] = "open"
                => \A s \in Range(emits[j].symbols) : Holds(emits[j].to, s)

\* C28: a subscribe request of a connection is rejected by the limit check if
\* and only if the number of symbols the connection holds added to the number
\* of entries of the request exceeds 50, whether or not the entries are new;
\* a rejected request is rejected as a whole: the socket is sent one
\* subscription_error and no subscribed acknowledgement, no snapshot is
\* started, and the connection table, the index and the timer are as before.
C28_LimitRejectsWholeRequest ==
    \A c \in DOMAIN connections : \A data \in BulkPayloads :
        LET r == SubscribeNow(c, data)
            over == Cardinality(connections[c].subscriptions) + Len(data.items)
                       > MAX_SUBSCRIPTIONS_PER_CLIENT
        IN  /\ Len(r.emits) = 1
            /\ r.emits[1].to = c
            /\ r.emits[1].ev = IF over THEN "subscription_error" ELSE "subscribed"
            /\ over =>
                  /\ r.emits[1].error = "Maximum 50 subscriptions allowed per client"
                  /\ r.emits[1].symbols = <<>>
                  /\ r.initial = <<>>
                  /\ r.connections = connections
                  /\ r.subscriptions = subscriptions
                  /\ (updateInterval \/ r.start) = updateInterval

\* A connection holds 50 symbols, so that a request for one symbol it holds
\* is over the limit, another connection holds 48, and the timer is active.
C28_Witness ==
    \E c, d \in DOMAIN connections :
        /\ Cardinality(connections[c].subscriptions) = 50
        /\ Cardinality(connections[d].subscriptions) = 48
        /\ \E data \in BulkPayloads :
              /\ Len(data.items) = 1
              /\ Range(Accepted(data.items)) \subseteq connections[c].subscriptions
        /\ updateInterval

\* C29, in every state: when connections a and b both hold symbol s, an
\* unsubscribe request of a for s and the disconnect of a leave the record of
\* b as it is and leave s in the index with b in its set; and a subscribe
\* request of a leaves the record of b and the sets b is in as they are.
C29_SharedSymbolKeptForOthers ==
    \A a \in DOMAIN connections : \A b \in DOMAIN connections \ {a} :
        /\ \A data \in Payloads :
              LET r == SubscribeNow(a, data) IN
              /\ r.connections[b] = connections[b]
              /\ \A s \in KnownSymbols \cup {AAPL, MSFT} :
                    b \in ClientsOf(r.subscriptions, s) <=> b \in ClientsOf(subscriptions, s)
        /\ \A s \in connections[a].subscriptions \cap connections[b].subscriptions :
              LET u == UnsubscribeHandler(connections, subscriptions, updateInterval,
                                          a, ArrayOf(<<Str(s)>>))
                  d == DisconnectHandler(connections, subscriptions, updateInterval, a)
              IN  /\ u.connections[b] = connections[b]
                  /\ d.connections[b] = connections[b]
                  /\ MapHas(u.subscriptions, s) /\ b \in ClientsOf(u.subscriptions, s)
                  /\ MapHas(d.subscriptions, s) /\ b \in ClientsOf(d.subscriptions, s)
                  /\ a \notin ClientsOf(u.subscriptions, s)
                  /\ a \notin ClientsOf(d.subscriptions, s)

\* C29, in every step: one connection acts, and every other connection has
\* after the step the record it had before and is in the index sets it was in
\* before, and in no other.
C29_OthersUntouched ==
    [][\E a \in Conns :
          \A b \in DOMAIN connections \ {a} :
             /\ b \in DOMAIN connections'
             /\ connections'[b] = connections[b]
             /\ \A s \in KnownSymbols \cup {AAPL, MSFT} :
                   b \in ClientsOf(subscriptions', s) <=> b \in ClientsOf(subscriptions, s)
      ]_vars

\* C29: a subscribe, unsubscribe or disconnect event of a connection changes
\* neither the own set of another connection nor the index sets the other
\* connection is in.
C29_EventsAreLocal ==
    []C29_SharedSymbolKeptForOthers /\ C29_OthersUntouched

\* Two connections share one symbol, one of them holds another symbol alone,
\* and a third socket has disconnected.
C29_Witness ==
    \E a, b, e \in Conns :
        /\ a # b
        /\ Holds(a, AAPL) /\ Holds(a, MSFT)
        /\ Holds(b, MSFT) /\ ~Holds(b, AAPL)
        /\ ClientsOf(subscriptions, MSFT) = {a, b}
        /\ sockets[e] = "closed"

\* C30: every socket id in a set of the index is the id of an open socket
\* that has a record in the connection table, so that no id of a connection
\* that has disconnected is left in the index; and a subscribe or unsubscribe
\* event handled for a socket without a record changes neither the table nor
\* the index, starts no snapshot and neither starts nor stops the timer.
C30_IndexHoldsLiveConnectionsOnly ==
    /\ \A k \in 1..Len(subscriptions) : \A c \in Range(subscriptions[k].clients) :
          c \in DOMAIN connections /\ sockets[c] = "open"
    /\ \A c \in Conns : sockets[c] = "closed" =>
          /\ c \notin DOMAIN connections
          /\ \A s \in KnownSymbols : c \notin ClientsOf(subscriptions, s)
    /\ \A c \in Conns \ DOMAIN connections : \A data \in Payloads :
          LET r == SubscribeNow(c, data)
              u == UnsubscribeHandler(connections, subscriptions, updateInterval,
                                      c, data)
          IN  /\ r.connections = connections /\ r.subscriptions = subscriptions
              /\ r.initial = <<>> /\ ~r.start
              /\ \A j \in 1..Len(r.emits) : r.emits[j].ev = "subscription_error"
              /\ u.connections = connections /\ u.subscriptions = subscriptions
              /\ ~u.stop
              /\ \A j \in 1..Len(u.emits) : u.emits[j].ev = "unsubscription_error"

\* Two sockets have disconnected, the index holds two symbols for the
\* connection that is left, and the timer is active.
C30_Witness ==
    \E c, d, e \in Conns :
        /\ c # d
        /\ sockets[c] = "closed" /\ sockets[d] = "closed"
        /\ Holds(e, AAPL) /\ Holds(e, MSFT)
        /\ Len(subscriptions) = 2
        /\ updateInterval

====
